---------------------------- MODULE Spec2Model ----------------------------
(***************************************************************************)
(* A model of the deal-evaluation pipeline of mindtheheadphone:            *)
(*   brazil_taxes.py      the tiered import tax and the landed price       *)
(*   deals_checker.py     link resolution, per-product evaluation, the     *)
(*                        batch runner and the ranker                      *)
(*   deals_tracker.py     the history store (table sent_deals)             *)
(*   telegram_notifier.py send_deal / send_deals_batch                     *)
(*   deals_bot.py         run_check                                        *)
(*                                                                         *)
(* Python floats are modelled as exact rationals <<n, d>> (lowest terms,   *)
(* d > 0); Python strings as sequences of one-character strings; Python's  *)
(* Optional[T] as a sequence of length 0 (None) or 1.                      *)
(***************************************************************************)
EXTENDS Integers, Sequences, FiniteSets, TLC

(***************************************************************************)
(* Optional values                                                         *)
(***************************************************************************)
None == <<>>
Some(v) == <<v>>

(***************************************************************************)
(* Exact rational arithmetic, standing for float arithmetic                *)
(***************************************************************************)
Abs(n) == IF n < 0 THEN -n ELSE n

RECURSIVE Gcd(_, _)
Gcd(a, b) == IF b = 0 THEN a ELSE Gcd(b, a % b)

Rat(n, d) ==
    LET g == Gcd(Abs(n), Abs(d))
        s == IF d < 0 THEN -1 ELSE 1
    IN  <<(s * n) \div g, (s * d) \div g>>

Num(x) == x[1]
Den(x) == x[2]
R(n) == <<n, 1>>
RAdd(x, y) == Rat(Num(x) * Den(y) + Num(y) * Den(x), Den(x) * Den(y))
RSub(x, y) == Rat(Num(x) * Den(y) - Num(y) * Den(x), Den(x) * Den(y))
RMul(x, y) == Rat(Num(x) * Num(y), Den(x) * Den(y))
RDiv(x, y) == Rat(Num(x) * Den(y), Den(x) * Num(y))
RLt(x, y) == Num(x) * Den(y) < Num(y) * Den(x)
RLe(x, y) == Num(x) * Den(y) <= Num(y) * Den(x)
RGt(x, y) == RLt(y, x)
RGe(x, y) == RLe(y, x)
RMax(x, y) == IF RLt(x, y) THEN y ELSE x

(***************************************************************************)
(* brazil_taxes.py                                                         *)
(***************************************************************************)
\* the mutant of calculate_brazilian_tax: a price of exactly 50 falls in the
\* upper tier
calculate_brazilian_tax_M(usd_price) ==
    IF RLe(usd_price, R(0)) THEN R(0)
    ELSE IF RLt(usd_price, R(50)) THEN RMul(usd_price, Rat(44, 100))
    ELSE LET tax == RSub(RMul(usd_price, Rat(92, 100)), R(20))
         IN  IF RLt(tax, R(0)) THEN R(0) ELSE tax

\* a second mutant of calculate_brazilian_tax: there is no lower tier
calculate_brazilian_tax_M2(usd_price) ==
    IF RLe(usd_price, R(0)) THEN R(0)
    ELSE LET tax == RSub(RMul(usd_price, Rat(92, 100)), R(20))
         IN  IF RLt(tax, R(0)) THEN R(0) ELSE tax

\* calculate_brazilian_tax(usd_price): tiered import tax in the foreign currency.
calculate_brazilian_tax(usd_price) ==
    IF RLe(usd_price, R(0)) THEN R(0)
    ELSE IF RLe(usd_price, R(50)) THEN RMul(usd_price, Rat(44, 100))
    ELSE LET tax == RSub(RMul(usd_price, Rat(92, 100)), R(20))
         IN  IF RLt(tax, R(0)) THEN R(0) ELSE tax

\* the mutant of calculate_final_price_brl: the tax is added unconverted
calculate_final_price_brl_M(usd_price, usd_to_brl_rate) ==
    LET tax_usd == calculate_brazilian_tax(usd_price)
        base_price_brl == RMul(usd_price, usd_to_brl_rate)
        tax_brl == RMul(tax_usd, usd_to_brl_rate)
        final_price_brl == RAdd(base_price_brl, tax_usd)
    IN  <<final_price_brl, tax_brl, base_price_brl>>

\* calculate_final_price_brl(usd_price, usd_to_brl_rate) with an explicit
\* rate: the triple (final_price_brl, tax_brl, base_price_brl).
calculate_final_price_brl(usd_price, usd_to_brl_rate) ==
    LET tax_usd == calculate_brazilian_tax(usd_price)
        base_price_brl == RMul(usd_price, usd_to_brl_rate)
        tax_brl == RMul(tax_usd, usd_to_brl_rate)
        final_price_brl == RAdd(base_price_brl, tax_brl)
    IN  <<final_price_brl, tax_brl, base_price_brl>>

(***************************************************************************)
(* Python str operations on sequences of characters                        *)
(***************************************************************************)
Digits == {"0", "1", "2", "3", "4", "5", "6", "7", "8", "9"}
UpperCase ==
    <<"A", "B", "C", "D", "E", "F", "G", "H", "I", "J", "K", "L", "M",
      "N", "O", "P", "Q", "R", "S", "T", "U", "V", "W", "X", "Y", "Z">>
LowerCase ==
    <<"a", "b", "c", "d", "e", "f", "g", "h", "i", "j", "k", "l", "m",
      "n", "o", "p", "q", "r", "s", "t", "u", "v", "w", "x", "y", "z">>

\* str.lower() of one character and of a string
LowerChar(c) ==
    IF \E i \in 1..Len(UpperCase) : UpperCase[i] = c
    THEN LowerCase[CHOOSE i \in 1..Len(UpperCase) : UpperCase[i] = c]
    ELSE c
Lower(s) == [i \in 1..Len(s) |-> LowerChar(s[i])]

\* s[i:i+len(p)] == p
HasAt(s, i, p) ==
    /\ i >= 1
    /\ i + Len(p) - 1 <= Len(s)
    /\ \A k \in 1..Len(p) : s[i + k - 1] = p[k]

\* s.startswith(p)
StartsWith(s, p) == HasAt(s, 1, p)

\* sub in s
Contains(s, sub) == \E i \in 1..(Len(s) + 1) : HasAt(s, i, sub)

\* s.replace(old, new): leftmost, non-overlapping occurrences
RECURSIVE ReplaceFrom(_, _, _, _)
ReplaceFrom(s, i, old, new) ==
    IF i > Len(s) THEN <<>>
    ELSE IF HasAt(s, i, old) THEN new \o ReplaceFrom(s, i + Len(old), old, new)
    ELSE <<s[i]>> \o ReplaceFrom(s, i + 1, old, new)
Replace(s, old, new) == ReplaceFrom(s, 1, old, new)

\* s.isdigit(): non-empty and every character a digit
isdigit(s) == Len(s) > 0 /\ \A i \in 1..Len(s) : s[i] \in Digits

\* the last index of the maximal run of digits starting at i (i - 1 if none)
RECURSIVE DigitRunEnd(_, _)
DigitRunEnd(s, i) ==
    IF i <= Len(s) /\ s[i] \in Digits THEN DigitRunEnd(s, i + 1) ELSE i - 1

\* re.search(prefix (\d+) suffix, s): the group of the leftmost match, or None.
\* \d+ is greedy and neither suffix starts with a digit, so the group is the
\* maximal digit run after the prefix.
MatchDigitsAt(s, i, prefix, suffix) ==
    /\ HasAt(s, i, prefix)
    /\ DigitRunEnd(s, i + Len(prefix)) >= i + Len(prefix)
    /\ HasAt(s, DigitRunEnd(s, i + Len(prefix)) + 1, suffix)
SearchDigits(s, prefix, suffix) ==
    LET hits == {i \in 1..Len(s) : MatchDigitsAt(s, i, prefix, suffix)}
    IN  IF hits = {} THEN None
        ELSE LET i == CHOOSE h \in hits : \A o \in hits : h <= o
             IN  Some(SubSeq(s, i + Len(prefix), DigitRunEnd(s, i + Len(prefix))))

(***************************************************************************)
(* String constants of deals_checker.py                                    *)
(***************************************************************************)
\* "http"
S_http ==
    <<"h", "t", "t", "p">>
\* "-"
S_dash ==
    <<"-">>
\* ".aliexpress.us"
S_aliexpress == <<"a", "l", "i", "e", "x", "p", "r", "e", "s", "s">>
S_aliexpress_us ==
    <<".", "a", "l", "i", "e", "x", "p", "r", "e", "s", "s", ".", "u", "s">>
\* ".aliexpress.com"
S_aliexpress_com ==
    <<".", "a", "l", "i", "e", "x", "p", "r", "e", "s", "s", ".", "c", "o",
      "m">>
\* "/item/"
S_item ==
    <<"/", "i", "t", "e", "m", "/">>
\* ".html"
S_html ==
    <<".", "h", "t", "m", "l">>
\* "/p/"
S_p ==
    <<"/", "p", "/">>
\* "/"
S_slash ==
    <<"/">>
\* "product/"
S_product ==
    <<"p", "r", "o", "d", "u", "c", "t", "/">>
\* "productId="
S_productId ==
    <<"p", "r", "o", "d", "u", "c", "t", "I", "d", "=">>
\* "://"
S_colon_slashes ==
    <<":", "/", "/">>
\* "s.click.aliexpress.com/e/"
S_s_click ==
    <<"s", ".", "c", "l", "i", "c", "k", ".", "a", "l", "i", "e", "x", "p",
      "r", "e", "s", "s", ".", "c", "o", "m", "/", "e", "/">>
\* "a.aliexpress.com/_"
S_a_ali ==
    <<"a", ".", "a", "l", "i", "e", "x", "p", "r", "e", "s", "s", ".", "c",
      "o", "m", "/", "_">>
\* "star.aliexpress.com"
S_star ==
    <<"s", "t", "a", "r", ".", "a", "l", "i", "e", "x", "p", "r", "e", "s",
      "s", ".", "c", "o", "m">>
\* "https://star.aliexpress.com/share/share.htm?&redirectUrl="
S_share ==
    <<"h", "t", "t", "p", "s", ":", "/", "/", "s", "t", "a", "r", ".", "a",
      "l", "i", "e", "x", "p", "r", "e", "s", "s", ".", "c", "o", "m", "/",
      "s", "h", "a", "r", "e", "/", "s", "h", "a", "r", "e", ".", "h", "t",
      "m", "?", "&", "r", "e", "d", "i", "r", "e", "c", "t", "U", "r", "l",
      "=">>
\* "https://www.aliexpress.com/item/"
S_www_item ==
    <<"h", "t", "t", "p", "s", ":", "/", "/", "w", "w", "w", ".", "a", "l",
      "i", "e", "x", "p", "r", "e", "s", "s", ".", "c", "o", "m", "/", "i",
      "t", "e", "m", "/">>

(***************************************************************************)
(* deals_checker.py: the link resolver                                     *)
(***************************************************************************)
\* the character class [a-zA-Z0-9_-] under re.IGNORECASE
ShortCodeChar(c) ==
    \/ c \in Digits
    \/ c \in {"_", "-"}
    \/ \E i \in 1..Len(LowerCase) : LowerCase[i] = LowerChar(c)

\* SHORT_LINK_REGEX.match(link): anchored at the start, case-insensitive,
\*   https?://(?:s\.click\.aliexpress\.com/e/|a\.aliexpress\.com/_)[a-zA-Z0-9_-]+/?
SHORT_LINK_REGEX(link) ==
    LET l == Lower(link)
        afterScheme == IF HasAt(l, 5, <<"s">>) THEN 6 ELSE 5
        afterSep == afterScheme + Len(S_colon_slashes)
        hostEnd(h) == afterSep + Len(h)
    IN  /\ StartsWith(l, S_http)
        /\ HasAt(l, afterScheme, S_colon_slashes)
        /\ \E h \in {S_s_click, S_a_ali} :
              /\ HasAt(l, afterSep, h)
              /\ hostEnd(h) <= Len(l)
              /\ ShortCodeChar(l[hostEnd(h)])

\* re.search(r'/p/[^/]+/([0-9]+)\.html', url)
SearchPPattern(url) ==
    LET nextSlash(i) ==
            CHOOSE j \in (i + 3)..(Len(url) + 1) :
                /\ j = Len(url) + 1 \/ url[j] = "/"
                /\ \A k \in (i + 3)..(j - 1) : url[k] # "/"
        ok(i) ==
            /\ HasAt(url, i, S_p)
            /\ nextSlash(i) > i + 3
            /\ nextSlash(i) <= Len(url)
            /\ MatchDigitsAt(url, nextSlash(i), S_slash, S_html)
        hits == {i \in 1..Len(url) : ok(i)}
    IN  IF hits = {} THEN None
        ELSE LET i == CHOOSE h \in hits : \A o \in hits : h <= o
                 j == nextSlash(i)
             IN  Some(SubSeq(url, j + 1, DigitRunEnd(url, j + 1)))

\* DealsChecker.extract_product_id(url)
extract_product_id(url0) ==
    IF url0 = <<>> THEN None
    ELSE LET url == IF Contains(url0, S_aliexpress_us)
                    THEN Replace(url0, S_aliexpress_us, S_aliexpress_com)
                    ELSE url0
             match == SearchDigits(url, S_item, S_html)
             alt1 == SearchPPattern(url)
             alt2 == SearchDigits(url, S_product, <<>>)
             alt3 == SearchDigits(url, S_productId, <<>>)
         IN  IF match # None THEN match
             ELSE IF alt1 # None THEN alt1
             ELSE IF alt2 # None THEN alt2
             ELSE alt3

\* the mutant of ValidProductId: the length is not checked
ValidProductId_M(product_id) == isdigit(product_id)

\* the validation of check_product_for_deal, line 301: the identifier is
\* kept only if it is all digits and at least 10 characters long
ValidProductId(product_id) == isdigit(product_id) /\ Len(product_id) >= 10

\* str.upper()
UpperChar(c) ==
    IF \E i \in 1..Len(LowerCase) : LowerCase[i] = c
    THEN UpperCase[CHOOSE i \in 1..Len(LowerCase) : LowerCase[i] = c]
    ELSE c
Upper(s) == [i \in 1..Len(s) |-> UpperChar(s[i])]

(***************************************************************************)
(* The modelled world: catalog links, product identifiers, the URLs a      *)
(* redirect can end at, the links the affiliate API can hand out           *)
(***************************************************************************)
\* "BRL"
BRL ==
    <<"B", "R", "L">>
\* "USD"
USD ==
    <<"U", "S", "D">>
\* "brl"
brl ==
    <<"b", "r", "l">>
\* "1005007431129955"
ID_item ==
    <<"1", "0", "0", "5", "0", "0", "7", "4", "3", "1", "1", "2", "9", "9",
      "5", "5">>
\* "1005000000000002"
ID_b ==
    <<"1", "0", "0", "5", "0", "0", "0", "0", "0", "0", "0", "0", "0", "0",
      "0", "2">>
\* "1005000000000003"
ID_c ==
    <<"1", "0", "0", "5", "0", "0", "0", "0", "0", "0", "0", "0", "0", "0",
      "0", "3">>
\* "https://x.aliexpress.com/item/1005007431129955.html"
L_item ==
    <<"h", "t", "t", "p", "s", ":", "/", "/", "x", ".", "a", "l", "i", "e",
      "x", "p", "r", "e", "s", "s", ".", "c", "o", "m", "/", "i", "t", "e",
      "m", "/", "1", "0", "0", "5", "0", "0", "7", "4", "3", "1", "1", "2",
      "9", "9", "5", "5", ".", "h", "t", "m", "l">>
\* "https://x.aliexpress.com/item/123.html"
L_tooShort ==
    <<"h", "t", "t", "p", "s", ":", "/", "/", "x", ".", "a", "l", "i", "e",
      "x", "p", "r", "e", "s", "s", ".", "c", "o", "m", "/", "i", "t", "e",
      "m", "/", "1", "2", "3", ".", "h", "t", "m", "l">>
\* "https://s.click.aliexpress.com/e/_c30WJKMz"
L_short ==
    <<"h", "t", "t", "p", "s", ":", "/", "/", "s", ".", "c", "l", "i", "c",
      "k", ".", "a", "l", "i", "e", "x", "p", "r", "e", "s", "s", ".", "c",
      "o", "m", "/", "e", "/", "_", "c", "3", "0", "W", "J", "K", "M", "z">>
\* "www.aliexpress.com/item/1005007431129955.html"
L_noScheme ==
    <<"w", "w", "w", ".", "a", "l", "i", "e", "x", "p", "r", "e", "s", "s",
      ".", "c", "o", "m", "/", "i", "t", "e", "m", "/", "1", "0", "0", "5",
      "0", "0", "7", "4", "3", "1", "1", "2", "9", "9", "5", "5", ".", "h",
      "t", "m", "l">>
\* "https//www.aliexpress.com/item/1005007431129955.html"
L_badScheme ==
    <<"h", "t", "t", "p", "s", "/", "/", "w", "w", "w", ".", "a", "l", "i",
      "e", "x", "p", "r", "e", "s", "s", ".", "c", "o", "m", "/", "i", "t",
      "e", "m", "/", "1", "0", "0", "5", "0", "0", "7", "4", "3", "1", "1",
      "2", "9", "9", "5", "5", ".", "h", "t", "m", "l">>
\* "https://www.aliexpress.us/item/1005007431129955.html"
L_us ==
    <<"h", "t", "t", "p", "s", ":", "/", "/", "w", "w", "w", ".", "a", "l",
      "i", "e", "x", "p", "r", "e", "s", "s", ".", "u", "s", "/", "i", "t",
      "e", "m", "/", "1", "0", "0", "5", "0", "0", "7", "4", "3", "1", "1",
      "2", "9", "9", "5", "5", ".", "h", "t", "m", "l">>
\* "https://m.aliexpress.com/product/1005007431129955"
L_altProduct ==
    <<"h", "t", "t", "p", "s", ":", "/", "/", "m", ".", "a", "l", "i", "e",
      "x", "p", "r", "e", "s", "s", ".", "c", "o", "m", "/", "p", "r", "o",
      "d", "u", "c", "t", "/", "1", "0", "0", "5", "0", "0", "7", "4", "3",
      "1", "1", "2", "9", "9", "5", "5">>
\* "-"
L_dash ==
    <<"-">>
\* ""
L_empty ==
    <<>>
\* "https://www.aliexpress.com/item/1005000000000002.html"
L_b ==
    <<"h", "t", "t", "p", "s", ":", "/", "/", "w", "w", "w", ".", "a", "l",
      "i", "e", "x", "p", "r", "e", "s", "s", ".", "c", "o", "m", "/", "i",
      "t", "e", "m", "/", "1", "0", "0", "5", "0", "0", "0", "0", "0", "0",
      "0", "0", "0", "0", "0", "2", ".", "h", "t", "m", "l">>
\* "https://a.aliexpress.com/_mC3"
L_c ==
    <<"h", "t", "t", "p", "s", ":", "/", "/", "a", ".", "a", "l", "i", "e",
      "x", "p", "r", "e", "s", "s", ".", "c", "o", "m", "/", "_", "m", "C",
      "3">>
\* "https://www.aliexpress.com/"
U_home ==
    <<"h", "t", "t", "p", "s", ":", "/", "/", "w", "w", "w", ".", "a", "l",
      "i", "e", "x", "p", "r", "e", "s", "s", ".", "c", "o", "m", "/">>
\* "https://www.aliexpress.com/item/404.html"
U_404 ==
    <<"h", "t", "t", "p", "s", ":", "/", "/", "w", "w", "w", ".", "a", "l",
      "i", "e", "x", "p", "r", "e", "s", "s", ".", "c", "o", "m", "/", "i",
      "t", "e", "m", "/", "4", "0", "4", ".", "h", "t", "m", "l">>
\* "https://www.aliexpress.us/item/1005000000000003.html"
U_c ==
    <<"h", "t", "t", "p", "s", ":", "/", "/", "w", "w", "w", ".", "a", "l",
      "i", "e", "x", "p", "r", "e", "s", "s", ".", "u", "s", "/", "i", "t",
      "e", "m", "/", "1", "0", "0", "5", "0", "0", "0", "0", "0", "0", "0",
      "0", "0", "0", "0", "3", ".", "h", "t", "m", "l">>
\* "https://s.click.aliexpress.com/e/_Aff1"
A_good ==
    <<"h", "t", "t", "p", "s", ":", "/", "/", "s", ".", "c", "l", "i", "c",
      "k", ".", "a", "l", "i", "e", "x", "p", "r", "e", "s", "s", ".", "c",
      "o", "m", "/", "e", "/", "_", "A", "f", "f", "1">>
\* "s.click.aliexpress.com/e/_Aff1"
A_noScheme ==
    <<"s", ".", "c", "l", "i", "c", "k", ".", "a", "l", "i", "e", "x", "p",
      "r", "e", "s", "s", ".", "c", "o", "m", "/", "e", "/", "_", "A", "f",
      "f", "1">>
\* "https://img/1.jpg"
IMG ==
    <<"h", "t", "t", "p", "s", ":", "/", "/", "i", "m", "g", "/", "1", ".",
      "j", "p", "g">>
\* "IEM"
TITLE ==
    <<"I", "E", "M">>

(***************************************************************************)
(* State                                                                   *)
(***************************************************************************)
VARIABLES
    sheet,            \* whether the last fetch of the sheets returned rows
    env,              \* the process environment: TZ, USD_TO_BRL_RATE, ...
    USD_TO_BRL_RATE,  \* brazil_taxes.USD_TO_BRL_RATE, module global
    now,              \* the clock, whole hours, UTC
    sent_deals,       \* the rows of table sent_deals, in insertion order
    channel,          \* the messages posted to the channel, in order
    phase,            \* where the coordinating flow stands
    products,         \* the products handed to the evaluation
    tasks,            \* check_all_products: one entry per scheduled coroutine
    i,                \* check_all_products: the batch loop's index (0-based)
    deals,            \* check_all_products: the deals collected so far
    best_deals,       \* run_check: the ranked deals
    send,             \* send_deals_batch / send_deal: position and locals
    results,          \* run_check: the results dictionary
    runs,             \* number of run_check calls started
    call              \* the last application of a pure function

vars == <<sheet, env, USD_TO_BRL_RATE, now, sent_deals, channel, phase, products,
          tasks, i, deals, best_deals, send, results, runs, call>>

\* google_sheets.Product, the fields the pipeline reads
Product(name, base_price, final_price, aliexpress_link) ==
    [name |-> name, base_price |-> base_price, final_price |-> final_price,
     aliexpress_link |-> aliexpress_link]

(***************************************************************************)
(* deals_checker.py: the remote calls' responses and their parsing         *)
(***************************************************************************)
\* resolve_short_link: what the redirect-following GET can end with
Timeout == [kind |-> "timeout"]
ClientError == [kind |-> "error"]
HttpResponse(status, url) == [kind |-> "response", status |-> status, url |-> url]

\* the mutant of resolve_short_link: the final status is not looked at
resolve_short_link_M(response) ==
    IF response.kind = "response" THEN Some(response.url) ELSE None

\* DealsChecker.resolve_short_link(short_url, session), given the GET's outcome
resolve_short_link(response) ==
    IF response.kind = "response"
    THEN IF response.status = 200 /\ response.url # <<>>
         THEN IF Contains(response.url, S_aliexpress_us)
              THEN Some(Replace(response.url, S_aliexpress_us, S_aliexpress_com))
              ELSE Some(response.url)
         ELSE None
    ELSE None

\* Python's None where the code expects a str: a JSON null in a body
PyNone == <<"None">>

\* TARGET_CURRENCY, the default of DealsChecker.currency
TARGET_CURRENCY == BRL

\* the bodies api_client.execute can return for productdetail.get
FetchFailureKinds ==
    {"empty", "rate_limited", "auth_invalid", "api_error", "bad_resp_code",
     "not_found", "exception"}
FetchFailure(kind) == [kind |-> kind]
\* a body with one product; target_sale_price and its currency may be absent
FetchOk(sale_price, currency, image_url) ==
    [kind |-> "ok", target_sale_price |-> sale_price,
     target_sale_price_currency |-> currency,
     product_main_image_url |-> image_url, product_title |-> Some(TITLE)]

\* DealsChecker._fetch_product_details_sync(product_id), given the body
fetch_product_details(product_id, response) ==
    IF response.kind = "ok"
    THEN Some([product_id |-> product_id,
               title |-> response.product_title,
               image_url |-> response.product_main_image_url,
               sale_price |-> IF response.target_sale_price = None
                              THEN R(0) ELSE response.target_sale_price[1],
               currency |-> IF response.target_sale_price_currency = None
                            THEN TARGET_CURRENCY
                            ELSE response.target_sale_price_currency[1]])
    ELSE None

\* the bodies api_client.execute can return for link.generate
LinkFailureKinds ==
    {"empty", "error_response", "bad_resp_code", "no_links", "exception"}
LinkFailure(kind) == [kind |-> kind]
\* a body with one promotion link; its promotion_link may be absent (None)
LinkOk(promotion_link) == [kind |-> "ok", promotion_link |-> promotion_link]

\* DealsChecker._generate_affiliate_link_sync(target_url), given the body
generate_affiliate_link(response) ==
    IF response.kind = "ok" THEN response.promotion_link ELSE None

\* the source_values the link.generate request is sent with
affiliate_source_url(target_url) ==
    IF ~Contains(target_url, S_star) THEN S_share \o target_url ELSE target_url

(***************************************************************************)
(* deals_checker.py: check_product_for_deal, one coroutine per product.    *)
(* The coroutine suspends at its three awaits (resolve_short_link,         *)
(* fetch_product_details, generate_affiliate_link); the code between two   *)
(* awaits runs without interruption on the event loop.                     *)
(***************************************************************************)
\* deals_checker.Deal
Deal(product, current_price, original_price, discount_percent, discount_amount, affiliate_link, product_id, image_url, title, checked_at) ==
    [product |-> product, current_price |-> current_price,
     original_price |-> original_price, discount_percent |-> discount_percent,
     discount_amount |-> discount_amount, currency |-> BRL,
     affiliate_link |-> affiliate_link, product_id |-> product_id,
     image_url |-> image_url, title |-> title, checked_at |-> checked_at]

\* the locals of one check_product_for_deal coroutine for products[k]
NewTask(k) ==
    [product |-> k, pc |-> "ready", product_id |-> None, resolved_url |-> None,
     details |-> None, reference_price_brl |-> None, exchange_rate |-> None,
     current_final_brl |-> None, discount_amount_brl |-> None,
     discount_percent |-> None, resolve_response |-> None,
     link_response |-> None, result |-> None,
     reason |-> "",
     resolve_calls |-> <<>>, lookup_calls |-> <<>>, link_calls |-> <<>>]

\* return None, with the log line's reason
Reject(task, reason) == [task EXCEPT !.pc = "done", !.result = None, !.reason = reason]

\* lines 379-381: an exception raised in the coroutine is caught and logged,
\* the coroutine returns None
Caught(task) == Reject(task, "exception")

\* the mutant of AfterResolve: the identifier is looked up unvalidated
AfterResolve_M(task) ==
    IF task.product_id = None \/ task.product_id[1] = <<>>
    THEN Reject(task, "unresolvable")
    ELSE [task EXCEPT !.pc = "await_fetch",
                      !.lookup_calls = @ \o <<task.product_id[1]>>]

\* lines 296-305: validate the identifier, then call fetch_product_details
AfterResolve(task) ==
    IF task.product_id = None \/ task.product_id[1] = <<>>
    THEN Reject(task, "unresolvable")
    ELSE IF ~ValidProductId(task.product_id[1])
    THEN Reject(task, "invalid_id")
    ELSE [task EXCEPT !.pc = "await_fetch",
                      !.lookup_calls = @ \o <<task.product_id[1]>>]

\* lines 285-294: the coroutine's first step
EvalBegin(task, product) ==
    IF SHORT_LINK_REGEX(product.aliexpress_link)
    THEN [task EXCEPT !.pc = "await_resolve",
                      !.resolve_calls = @ \o <<product.aliexpress_link>>]
    ELSE AfterResolve([task EXCEPT
             !.product_id = extract_product_id(product.aliexpress_link),
             !.resolved_url = Some(product.aliexpress_link)])

\* lines 289-291, resumed with the redirect's outcome
EvalResolved(task, response) ==
    LET resolved_url == resolve_short_link(response)
    IN  AfterResolve([task EXCEPT
            !.resolve_response = Some(response),
            !.resolved_url = resolved_url,
            !.product_id = IF resolved_url # None /\ resolved_url[1] # <<>>
                           THEN extract_product_id(resolved_url[1])
                           ELSE None])

\* the mutant of ReferencePrice: base_price is preferred to final_price
ReferencePrice_M(product) ==
    IF RGt(product.base_price, R(0)) THEN product.base_price
    ELSE product.final_price

\* line 318: final_price as reference, base_price if final_price is missing
ReferencePrice(product) ==
    IF RGt(product.final_price, R(0)) THEN product.final_price
    ELSE product.base_price

\* a second mutant of CurrentFinalBrl: the normalisation reads the module
\* global as it was before get_exchange_rate, the landed price the snapshot
CurrentFinalBrl_M2(details, exchange_rate) ==
    LET current_price_usd ==
            IF Upper(details.currency) = BRL
            THEN RDiv(details.sale_price, USD_TO_BRL_RATE)
            ELSE details.sale_price
    IN  calculate_final_price_brl(current_price_usd, exchange_rate)[1]

\* the mutant of CurrentFinalBrl: a BRL listing is converted like a foreign one
CurrentFinalBrl_M(details, exchange_rate) ==
    calculate_final_price_brl(details.sale_price, exchange_rate)[1]

\* lines 328-333: the landed price of the listing in BRL
CurrentFinalBrl(details, exchange_rate) ==
    LET current_price_usd ==
            IF Upper(details.currency) = BRL
            THEN RDiv(details.sale_price, exchange_rate)
            ELSE details.sale_price
    IN  calculate_final_price_brl(current_price_usd, exchange_rate)[1]

\* line 335: the listing is not cheaper than the reference
NotCheaper(current_final_brl, reference_price_brl) ==
    RGe(current_final_brl, reference_price_brl)

\* the mutant of DiscountPercent: the discount is taken in percent of the
\* current price (reference - discount) instead of the reference
DiscountPercent_M(discount_amount_brl, reference_price_brl) ==
    RMul(RDiv(discount_amount_brl,
              RSub(reference_price_brl, discount_amount_brl)), R(100))

\* line 340: the discount in percent of the reference
DiscountPercent(discount_amount_brl, reference_price_brl) ==
    RMul(RDiv(discount_amount_brl, reference_price_brl), R(100))

\* the mutant of BelowThreshold: a discount equal to the minimum is refused
BelowThreshold_M(discount_percent, min_discount_percent) ==
    RLe(discount_percent, min_discount_percent)

\* line 342: the discount is below the configured minimum
BelowThreshold(discount_percent, min_discount_percent) ==
    RLt(discount_percent, min_discount_percent)

\* the mutant of InvalidPrice: a price of 0 is accepted
InvalidPrice_M(current_price) == RLt(current_price, R(0))

\* line 313: the listing's sale price is not positive
InvalidPrice(current_price) == RLe(current_price, R(0))

\* whether the evaluation, resumed with this body, reaches line 326
\* (get_exchange_rate)
ReadsExchangeRate(task, product, response) ==
    LET details == fetch_product_details(task.product_id[1], response)
    IN  /\ details # None
        /\ ~InvalidPrice(details[1].sale_price)
        /\ RGt(ReferencePrice(product), R(0))

\* lines 305-350, resumed with the body of productdetail.get; exchange_rate
\* is what get_exchange_rate() returned; line 328 raises AttributeError on a
\* currency that is None
EvalFetched(task, product, response, exchange_rate, min_discount_percent) ==
    LET details == fetch_product_details(task.product_id[1], response)
        t1 == [task EXCEPT !.details = details]
    IN  IF details = None THEN Reject(t1, "lookup_failed")
        ELSE IF InvalidPrice(details[1].sale_price) THEN Reject(t1, "invalid_price")
        ELSE
        LET reference_price_brl == ReferencePrice(product)
            t2 == [t1 EXCEPT !.reference_price_brl = Some(reference_price_brl)]
        IN  IF RLe(reference_price_brl, R(0)) THEN Reject(t2, "no_reference")
            ELSE IF details[1].currency = PyNone
            THEN Caught([t2 EXCEPT !.exchange_rate = Some(exchange_rate)])
            ELSE
            LET current_final_brl == CurrentFinalBrl(details[1], exchange_rate)
                t3 == [t2 EXCEPT !.exchange_rate = Some(exchange_rate),
                                 !.current_final_brl = Some(current_final_brl)]
            IN  IF NotCheaper(current_final_brl, reference_price_brl)
                THEN Reject(t3, "not_cheaper")
                ELSE
                LET discount_amount_brl == RSub(reference_price_brl, current_final_brl)
                    discount_percent ==
                        DiscountPercent(discount_amount_brl, reference_price_brl)
                    t4 == [t3 EXCEPT !.discount_amount_brl = Some(discount_amount_brl),
                                     !.discount_percent = Some(discount_percent)]
                IN  IF BelowThreshold(discount_percent, min_discount_percent)
                    THEN Reject(t4, "below_threshold")
                    ELSE [t4 EXCEPT
                             !.pc = "await_link",
                             !.link_calls = @ \o
                                 <<S_www_item \o task.product_id[1] \o S_html>>]

\* lines 352-353: the generated link, or the product's own link
ChosenLink(generated, product) ==
    IF generated = None \/ generated[1] = <<>> \/ ~StartsWith(generated[1], S_http)
    THEN product.aliexpress_link
    ELSE generated[1]

\* line 355: the link is refused
LinkRefused(affiliate_link) ==
    \/ affiliate_link = <<>>
    \/ affiliate_link = S_dash
    \/ ~StartsWith(affiliate_link, S_http)

\* lines 348-377, resumed with the body of link.generate
EvalLinked(task, product, response, checked_at) ==
    LET affiliate_link == ChosenLink(generate_affiliate_link(response), product)
        t1 == [task EXCEPT !.link_response = Some(response)]
    IN  IF LinkRefused(affiliate_link) THEN Reject(t1, "no_link")
        ELSE [t1 EXCEPT
                 !.pc = "done",
                 !.reason = "qualified",
                 !.result = Some(Deal(product, task.details[1].sale_price,
                     task.reference_price_brl[1], task.discount_percent[1],
                     task.discount_amount_brl[1], affiliate_link,
                     task.product_id[1], task.details[1].image_url,
                     IF task.details[1].title = None \/ task.details[1].title[1] = <<>>
                     THEN product.name ELSE task.details[1].title[1],
                     checked_at))]

(***************************************************************************)
(* The modelled world: what the remote services can answer                 *)
(***************************************************************************)
\* a redirect-following GET of a shortened link
ResolveOutcomes(link) ==
    IF link = L_short
    THEN {Timeout, ClientError, HttpResponse(404, link), HttpResponse(200, <<>>),
          HttpResponse(200, L_item), HttpResponse(200, L_us),
          HttpResponse(200, U_home), HttpResponse(200, U_404)}
    ELSE {Timeout, HttpResponse(200, U_c)}

\* sale prices the listing of ID_item can carry (absent, -1, 10, 18, 19, 20,
\* 50/3, 200/9, 62.50, 93.75, 100)
ListingPrices ==
    {None, Some(R(-1)), Some(R(10)), Some(R(18)), Some(R(19)), Some(R(20)), Some(Rat(50, 3)),
     Some(Rat(200, 9)), Some(Rat(125, 2)), Some(Rat(375, 4)), Some(R(100))}
ListingCurrencies == {None, Some(USD), Some(BRL), Some(brl), Some(PyNone)}

\* productdetail.get for an identifier
FetchOutcomes(product_id) ==
    IF product_id = ID_item
    THEN {FetchFailure(k) : k \in FetchFailureKinds} \cup
         {FetchOk(p, c, Some(IMG)) : p \in ListingPrices, c \in ListingCurrencies}
    ELSE IF product_id = ID_b
    THEN {FetchFailure(k) : k \in FetchFailureKinds} \cup
         {FetchOk(None, Some(USD), Some(IMG)), FetchOk(Some(R(10)), Some(USD), Some(IMG))}
    ELSE {FetchOk(Some(R(40)), Some(BRL), None), FetchOk(Some(R(40)), Some(PyNone), None)}

\* link.generate for the item page of an identifier
LinkOutcomes(product_id) ==
    IF product_id = ID_item
    THEN {LinkFailure(k) : k \in LinkFailureKinds} \cup
         {LinkOk(l) : l \in {None, Some(<<>>), Some(A_noScheme), Some(A_good)}}
    ELSE IF product_id = ID_b
    THEN {LinkOk(Some(A_good))}
    ELSE {LinkFailure("error_response")}

(***************************************************************************)
(* Environments and initial states                                         *)
(***************************************************************************)
\* the process environment: the local time zone's offset from UTC in hours
\* and the variables read by brazil_taxes.py and deals_bot.py
Env(tz, rate, hours, max_deals, min_discount) ==
    [TZ |-> tz, USD_TO_BRL_RATE |-> rate, DUPLICATE_CHECK_HOURS |-> hours,
     MAX_DEALS_PER_RUN |-> max_deals, MIN_DISCOUNT_PERCENT |-> min_discount]

\* GoogleSheetsReader._fetch_sheet_csv for the configured sheets: every fetch
\* failed (a request error, or HTML in place of CSV), or the rows parsed from
\* the sheets that were read
Unreadable == [readable |-> FALSE, rows |-> <<>>]
Readable(rows) == [readable |-> TRUE, rows |-> rows]

\* GoogleSheetsReader.get_all_products, given what the fetches ended with
get_all_products(fetched) == IF fetched.readable THEN fetched.rows ELSE <<>>

NoCall == [fn |-> "none"]
NoSend == [pc |-> "none"]
NoResults == [products_checked |-> 0, deals_found |-> 0, deals_sent |-> 0,
              errors |-> <<>>]

\* the process after start-up, the store and the channel left aside
InitProcess(envs) ==
    /\ env \in envs
    /\ sheet = TRUE
    /\ USD_TO_BRL_RATE = env.USD_TO_BRL_RATE
    /\ now = 0
    /\ phase = "idle"
    /\ products = <<>>
    /\ tasks = <<>>
    /\ i = 0
    /\ deals = <<>>
    /\ best_deals = <<>>
    /\ send = NoSend
    /\ results = NoResults
    /\ runs = 0
    /\ call = NoCall

\* a process started on an empty store and an empty channel
InitWith(envs) ==
    /\ InitProcess(envs)
    /\ sent_deals = <<>>
    /\ channel = <<>>

(***************************************************************************)
(* The coroutines of check_product_for_deal resumed by the event loop      *)
(***************************************************************************)
batch_size == 5

\* the coroutines the event loop is running: the one of a direct call, the
\* later one of two calls in a row, or those of the batch being gathered
Running ==
    IF phase = "direct" THEN {1}
    ELSE IF phase = "twice" THEN {Len(tasks)}
    ELSE IF phase = "gather"
    THEN {t \in 1..Len(tasks) : i < t /\ t <= i + batch_size}
    ELSE {}

\* resolve_short_link returns
OnResolved(t) ==
    /\ t \in Running
    /\ tasks[t].pc = "await_resolve"
    /\ \E response \in ResolveOutcomes(products[tasks[t].product].aliexpress_link) :
           tasks' = [tasks EXCEPT ![t] = EvalResolved(@, response)]
    /\ UNCHANGED <<sheet, env, USD_TO_BRL_RATE, now, sent_deals, channel, phase, products,
                   i, deals, best_deals, send, results, runs, call>>

\* the mutant of get_exchange_rate: the rate moves with the clock
get_exchange_rate_M == RAdd(env.USD_TO_BRL_RATE, R(now))

\* brazil_taxes.get_exchange_rate(): re-reads the environment into the global
get_exchange_rate == env.USD_TO_BRL_RATE

\* fetch_product_details returns
OnFetched(t) ==
    /\ t \in Running
    /\ tasks[t].pc = "await_fetch"
    /\ \E response \in FetchOutcomes(tasks[t].product_id[1]) :
          /\ tasks' = [tasks EXCEPT ![t] =
                 EvalFetched(@, products[tasks[t].product], response,
                             get_exchange_rate, env.MIN_DISCOUNT_PERCENT)]
          /\ USD_TO_BRL_RATE' =
                 IF ReadsExchangeRate(tasks[t], products[tasks[t].product], response)
                 THEN get_exchange_rate ELSE USD_TO_BRL_RATE
    /\ UNCHANGED <<sheet, env, now, sent_deals, channel, phase, products,
                   i, deals, best_deals, send, results, runs, call>>

\* generate_affiliate_link returns
OnLinked(t) ==
    /\ t \in Running
    /\ tasks[t].pc = "await_link"
    /\ \E response \in LinkOutcomes(tasks[t].product_id[1]) :
           tasks' = [tasks EXCEPT ![t] =
               EvalLinked(@, products[tasks[t].product], response, now + env.TZ)]
    /\ UNCHANGED <<sheet, env, USD_TO_BRL_RATE, now, sent_deals, channel, phase, products,
                   i, deals, best_deals, send, results, runs, call>>

(***************************************************************************)
(* deals_checker.main(): one direct call of check_product_for_deal         *)
(***************************************************************************)
\* the products a direct call is made with
DirectProducts ==
    {Product("A", R(100), f, L_item) : f \in {R(145), R(144), R(0)}} \cup
    {Product("A", R(0), R(0), L_item)} \cup
    {Product("B", R(100), R(145), l) :
        l \in {L_tooShort, L_short, L_noScheme, L_badScheme, L_us, L_altProduct,
               L_dash, L_empty}}

EvalEnvs ==
    {Env(0, r, 24, 10, m) : r \in {R(5), Rat(6, 5), R(1)}, m \in {R(10), R(20)}}

DirectCall ==
    /\ phase = "idle"
    /\ \E product \in DirectProducts :
          /\ products' = <<product>>
          /\ tasks' = <<EvalBegin(NewTask(1), product)>>
    /\ phase' = "direct"
    /\ UNCHANGED <<sheet, env, USD_TO_BRL_RATE, now, sent_deals, channel,
                   i, deals, best_deals, send, results, runs, call>>

DirectReturn ==
    /\ phase = "direct"
    /\ tasks[1].pc = "done"
    /\ phase' = "idle"
    /\ products' = <<>>
    /\ tasks' = <<>>
    /\ UNCHANGED <<sheet, env, USD_TO_BRL_RATE, now, sent_deals, channel,
                   i, deals, best_deals, send, results, runs, call>>

InitEval == InitWith(EvalEnvs)
NextEval ==
    \/ DirectCall
    \/ \E t \in 1..Len(tasks) : OnResolved(t)
    \/ \E t \in 1..Len(tasks) : OnFetched(t)
    \/ \E t \in 1..Len(tasks) : OnLinked(t)
    \/ DirectReturn
SpecEval == InitEval /\ [][NextEval]_vars

(***************************************************************************)
(* Claims about check_product_for_deal, checked under SpecEval             *)
(***************************************************************************)
Tasks == 1..Len(tasks)
ProductOf(t) == products[tasks[t].product]
Returned(t) == tasks[t].pc = "done"
HasDeal(t) == tasks[t].pc = "done" /\ tasks[t].result # None
DealOf(t) == tasks[t].result[1]

\* C3: every Deal returned by check_product_for_deal has discount_amount =
\* original_price - current_landed and discount_percent = discount_amount /
\* original_price * 100, where original_price is the reference price and
\* current_landed the landed price of the fetched listing; and a Deal exists
\* only if original_price > 0 and discount_percent >= min_discount_percent.
C3_DealArithmetic ==
    \A t \in Tasks :
        HasDeal(t) =>
            LET d == DealOf(t)
                current_landed == tasks[t].current_final_brl[1]
            IN  /\ d.original_price = tasks[t].reference_price_brl[1]
                /\ d.discount_amount = RSub(d.original_price, current_landed)
                /\ RMul(d.discount_percent, d.original_price)
                       = RMul(R(100), RSub(d.original_price, current_landed))
                /\ RGt(d.original_price, R(0))
                /\ RGe(d.discount_percent, env.MIN_DISCOUNT_PERCENT)

\* a Deal was returned whose discount is strictly between the minimum and 100
C3_Witness ==
    \E t \in Tasks :
        /\ HasDeal(t)
        /\ RGt(DealOf(t).discount_percent, env.MIN_DISCOUNT_PERCENT)
        /\ RLt(DealOf(t).discount_percent, R(100))

\* the evaluation of t got as far as comparing the listing with the reference
Priced(t) == tasks[t].current_final_brl # None
PassedThreshold(t) ==
    \/ tasks[t].pc = "await_link"
    \/ tasks[t].pc = "done" /\ tasks[t].reason \in {"qualified", "no_link"}

\* C4: check_product_for_deal returns no Deal whenever current_landed >=
\* reference (equality included) and whenever the computed discount_percent
\* is below min_discount_percent, while a discount exactly equal to the
\* minimum passes the threshold; with reference 145 (minimum 10) a listing
\* landing at 160 is rejected as not cheaper and one landing at 120 passes
\* with discount_percent = 2500/145, between 17.24 and 17.25.
C4_Threshold ==
    \A t \in Tasks :
        Priced(t) =>
            LET current_landed == tasks[t].current_final_brl[1]
                reference == tasks[t].reference_price_brl[1]
                percent == tasks[t].discount_percent
            IN  /\ RGe(current_landed, reference) =>
                       /\ Returned(t) /\ ~HasDeal(t)
                       /\ tasks[t].link_calls = <<>>
                /\ (percent # None /\ RLt(percent[1], env.MIN_DISCOUNT_PERCENT)) =>
                       /\ Returned(t) /\ ~HasDeal(t)
                       /\ tasks[t].link_calls = <<>>
                /\ (percent # None /\ percent[1] = env.MIN_DISCOUNT_PERCENT) =>
                       PassedThreshold(t)
                /\ (reference = R(145) /\ current_landed = R(160)) =>
                       tasks[t].reason = "not_cheaper"
                /\ (reference = R(145) /\ current_landed = R(120)
                        /\ env.MIN_DISCOUNT_PERCENT = R(10)) =>
                       /\ PassedThreshold(t)
                       /\ percent = Some(Rat(2500, 145))
                       /\ RLe(Rat(1724, 100), percent[1])
                       /\ RLt(percent[1], Rat(1725, 100))

\* a listing whose discount is exactly the minimum got its Deal
C4_Witness ==
    \E t \in Tasks :
        /\ HasDeal(t)
        /\ DealOf(t).discount_percent = env.MIN_DISCOUNT_PERCENT

\* the 145 / 120 example was evaluated and got its Deal
C4_WitnessExample ==
    \E t \in Tasks :
        /\ HasDeal(t)
        /\ DealOf(t).original_price = R(145)
        /\ tasks[t].current_final_brl = Some(R(120))

\* C5: the reference price is final_price when final_price > 0, otherwise
\* base_price when base_price > 0, and otherwise the product is rejected; a
\* Deal's original_price is the reference chosen this way.
C5_ReferencePrice ==
    \A t \in Tasks :
        LET p == ProductOf(t)
            expected == IF RGt(p.final_price, R(0)) THEN Some(p.final_price)
                        ELSE IF RGt(p.base_price, R(0)) THEN Some(p.base_price)
                        ELSE None
        IN  /\ HasDeal(t) => Some(DealOf(t).original_price) = expected
            /\ Priced(t) => tasks[t].reference_price_brl = expected
            /\ (Returned(t) /\ expected = None) =>
                   /\ ~HasDeal(t)
                   /\ tasks[t].link_calls = <<>>
                   /\ tasks[t].current_final_brl = None

\* a product without final_price got a Deal against its base_price
C5_Witness ==
    \E t \in Tasks :
        /\ HasDeal(t)
        /\ ProductOf(t).final_price = R(0)
        /\ DealOf(t).original_price = ProductOf(t).base_price

\* an identifier as the spec wants it: digits only, at least 10 of them
WellFormedId(id) == Len(id) >= 10 /\ \A n \in 1..Len(id) : id[n] \in Digits

\* C6: check_product_for_deal never calls the price lookup with, and never
\* returns a Deal whose product_id is, an identifier that is not all digits
\* with length >= 10; .../item/1005007431129955.html resolves to
\* 1005007431129955 and .../item/123.html is rejected, not looked up.
C6_IdentifierValidated ==
    \A t \in Tasks :
        /\ \A n \in 1..Len(tasks[t].lookup_calls) :
               WellFormedId(tasks[t].lookup_calls[n])
        /\ HasDeal(t) => WellFormedId(DealOf(t).product_id)
        /\ (ProductOf(t).aliexpress_link = L_item /\ tasks[t].pc # "ready") =>
               /\ tasks[t].product_id = Some(ID_item)
               /\ tasks[t].lookup_calls = <<ID_item>>
        /\ (ProductOf(t).aliexpress_link = L_tooShort /\ tasks[t].pc # "ready") =>
               /\ Returned(t) /\ ~HasDeal(t)
               /\ tasks[t].lookup_calls = <<>>

\* a link whose identifier is too short was evaluated and rejected
C6_Witness ==
    \E t \in Tasks :
        /\ Returned(t)
        /\ tasks[t].product_id # None
        /\ ~WellFormedId(tasks[t].product_id[1])
        /\ tasks[t].reason = "invalid_id"

\* a well-formed absolute URL: http:// or https:// followed by a host
S_http_url == S_http \o S_colon_slashes
S_https_url == S_http \o <<"s">> \o S_colon_slashes
AbsoluteUrl(url) ==
    \/ StartsWith(url, S_http_url) /\ Len(url) > Len(S_http_url)
          /\ url[Len(S_http_url) + 1] # "/"
    \/ StartsWith(url, S_https_url) /\ Len(url) > Len(S_https_url)
          /\ url[Len(S_https_url) + 1] # "/"

\* link generation returned something usable
Generated(t) ==
    /\ tasks[t].link_response # None
    /\ generate_affiliate_link(tasks[t].link_response[1]) # None
    /\ AbsoluteUrl(generate_affiliate_link(tasks[t].link_response[1])[1])

\* C10: when affiliate-link generation fails, check_product_for_deal falls
\* back to the product's original link if and only if that link is a
\* well-formed absolute URL, and otherwise produces no Deal; when generation
\* succeeds the Deal carries the generated link; no Deal carries an empty,
\* '-' or non-absolute link.
C10_LinkFallback ==
    \A t \in Tasks :
        (Returned(t) /\ tasks[t].link_response # None) =>
            /\ ~Generated(t) =>
                   /\ HasDeal(t) <=> AbsoluteUrl(ProductOf(t).aliexpress_link)
                   /\ HasDeal(t) =>
                          DealOf(t).affiliate_link = ProductOf(t).aliexpress_link
            /\ Generated(t) =>
                   /\ HasDeal(t)
                   /\ DealOf(t).affiliate_link =
                          generate_affiliate_link(tasks[t].link_response[1])[1]
            /\ HasDeal(t) => AbsoluteUrl(DealOf(t).affiliate_link)

(***************************************************************************)
(* deals_checker.py: the ranker                                            *)
(***************************************************************************)
\* list.sort(key=lambda d: d.discount_percent, reverse=True): a stable sort,
\* so an element goes behind every element whose key is not smaller
RECURSIVE InsertDescending(_, _)
InsertDescending(sorted, d) ==
    IF sorted = <<>> THEN <<d>>
    ELSE IF RGe(Head(sorted).discount_percent, d.discount_percent)
    THEN <<Head(sorted)>> \o InsertDescending(Tail(sorted), d)
    ELSE <<d>> \o sorted

RECURSIVE SortDescending(_)
SortDescending(list) ==
    IF list = <<>> THEN <<>>
    ELSE InsertDescending(SortDescending(SubSeq(list, 1, Len(list) - 1)),
                          list[Len(list)])

\* list[:n]
Slice(list, n) ==
    IF n >= 0 THEN SubSeq(list, 1, IF n < Len(list) THEN n ELSE Len(list))
    ELSE SubSeq(list, 1, IF Len(list) + n > 0 THEN Len(list) + n ELSE 0)

\* line 433: min_discount or self.min_discount_percent
EffectiveMinDiscount(min_discount, min_discount_percent) ==
    IF min_discount = None \/ min_discount[1] = R(0)
    THEN min_discount_percent
    ELSE min_discount[1]

\* DealsChecker.filter_best_deals(deals, max_deals, min_discount); min_discount
\* is None when not passed, min_discount_percent is self.min_discount_percent
filter_best_deals(list, max_deals, min_discount, min_discount_percent) ==
    LET minimum == EffectiveMinDiscount(min_discount, min_discount_percent)
        keep(d) == RGe(d.discount_percent, minimum)
        filtered == SelectSeq(list, keep)
    IN  Slice(SortDescending(filtered), max_deals)

(***************************************************************************)
(* The pure functions applied to inputs drawn from bounded sets            *)
(***************************************************************************)
MaxPriceSteps == 24
MaxListLen == 4
MaxMaxDeals == 3

\* prices in cents: a grid of 5.00 steps and the schedule's edges
PricesCents ==
    {-100, 1, 2174, 4999, 5001} \cup {500 * k : k \in 0..MaxPriceSteps}
PureRates == {None, Some(R(1)), Some(Rat(6, 5)), Some(R(5)), Some(Rat(11, 2))}
PureDiscounts == {R(8), R(12), R(30), R(45)}
PureMinDiscounts == {None, Some(R(0)), Some(R(10)), Some(R(30))}

\* the lists of deals handed to the ranker: deal k of a list is tagged k
RECURSIVE DealLists(_)
DealLists(n) ==
    IF n = 0 THEN {<<>>}
    ELSE DealLists(n - 1) \cup
         {Append(l, [tag |-> n, discount_percent |-> x]) :
             l \in {s \in DealLists(n - 1) : Len(s) = n - 1}, x \in PureDiscounts}

CallTax ==
    /\ phase = "idle"
    /\ call = NoCall
    /\ \E cents \in PricesCents :
           call' = [fn |-> "calculate_brazilian_tax",
                    usd_price |-> Rat(cents, 100),
                    result |-> calculate_brazilian_tax(Rat(cents, 100))]
    /\ UNCHANGED <<sheet, env, USD_TO_BRL_RATE, now, sent_deals, channel, phase, products,
                   tasks, i, deals, best_deals, send, results, runs>>

CallFinalPrice ==
    /\ phase = "idle"
    /\ call = NoCall
    /\ \E cents \in PricesCents, rate \in PureRates :
           call' = [fn |-> "calculate_final_price_brl",
                    usd_price |-> Rat(cents, 100),
                    usd_to_brl_rate |-> rate,
                    result |-> calculate_final_price_brl(Rat(cents, 100),
                        IF rate = None THEN USD_TO_BRL_RATE ELSE rate[1]),
                    again |-> None]
    /\ UNCHANGED <<sheet, env, USD_TO_BRL_RATE, now, sent_deals, channel, phase, products,
                   tasks, i, deals, best_deals, send, results, runs>>

\* calculate_final_price_brl called once more with the arguments of the
\* call before
CallFinalPriceAgain ==
    /\ phase = "idle"
    /\ call.fn = "calculate_final_price_brl"
    /\ call.again = None
    /\ call' = [call EXCEPT !.again =
                    Some(calculate_final_price_brl(call.usd_price,
                        IF call.usd_to_brl_rate = None THEN USD_TO_BRL_RATE
                        ELSE call.usd_to_brl_rate[1]))]
    /\ UNCHANGED <<sheet, env, USD_TO_BRL_RATE, now, sent_deals, channel, phase, products,
                   tasks, i, deals, best_deals, send, results, runs>>

\* the rates update_exchange_rate is called with
NewRates == {R(5), R(6)}

\* update_exchange_rate(new_rate): the module global is overwritten, between
\* two calls or while a directly called evaluation is suspended in an await
UpdateExchangeRate ==
    /\ phase \in {"idle", "direct"}
    /\ \E new_rate \in NewRates : USD_TO_BRL_RATE' = new_rate
    /\ UNCHANGED <<sheet, env, now, sent_deals, channel, phase, products,
                   tasks, i, deals, best_deals, send, results, runs, call>>

\* get_exchange_rate(): the module global is read again from the environment
GetExchangeRate ==
    /\ phase = "idle"
    /\ USD_TO_BRL_RATE' = env.USD_TO_BRL_RATE
    /\ UNCHANGED <<sheet, env, now, sent_deals, channel, phase, products,
                   tasks, i, deals, best_deals, send, results, runs, call>>

CallFilter ==
    /\ phase = "idle"
    /\ call = NoCall
    /\ \E list \in DealLists(MaxListLen), max_deals \in 0..MaxMaxDeals,
          min_discount \in PureMinDiscounts :
           call' = [fn |-> "filter_best_deals",
                    deals |-> list, max_deals |-> max_deals,
                    min_discount |-> min_discount,
                    result |-> filter_best_deals(list, max_deals, min_discount,
                                                 env.MIN_DISCOUNT_PERCENT)]
    /\ UNCHANGED <<sheet, env, USD_TO_BRL_RATE, now, sent_deals, channel, phase, products,
                   tasks, i, deals, best_deals, send, results, runs>>

\* the caller takes the result; the next call can be made
CallReturn ==
    /\ phase = "idle"
    /\ call # NoCall
    /\ call' = NoCall
    /\ UNCHANGED <<sheet, env, USD_TO_BRL_RATE, now, sent_deals, channel, phase, products,
                   tasks, i, deals, best_deals, send, results, runs>>

PureEnvs == {Env(0, R(5), 24, 10, R(10))}
InitPure == InitWith(PureEnvs)
NextPure ==
    \/ CallTax
    \/ CallFinalPrice
    \/ CallFinalPriceAgain
    \/ UpdateExchangeRate
    \/ GetExchangeRate
    \/ CallFilter
    \/ CallReturn
SpecPure == InitPure /\ [][NextPure]_vars

(***************************************************************************)
(* Claims about the pure functions, checked under SpecPure                 *)
(***************************************************************************)
\* the price of a call in cents
CentsOf(x) == (Num(x) * 100) \div Den(x)

\* C8: calculate_brazilian_tax(p) is 0 when p <= 0, 0.44 * p when
\* 0 < p <= 50 (50 gives 22) and max(0, 0.92 * p - 20) when p > 50 (75
\* gives 49).  In cents n: 10000 * tax = 44 * n, resp. 92 * n - 200000.
C8_TaxSchedule ==
    call.fn = "calculate_brazilian_tax" =>
        LET n == CentsOf(call.usd_price)
            tax == call.result
        IN  /\ n <= 0 => tax = R(0)
            /\ (0 < n /\ n <= 5000) => Num(tax) * 10000 = 44 * n * Den(tax)
            /\ (n > 5000 /\ 92 * n >= 200000) =>
                   Num(tax) * 10000 = (92 * n - 200000) * Den(tax)
            /\ (n > 5000 /\ 92 * n < 200000) => tax = R(0)
            /\ n = 5000 => tax = R(22)
            /\ n = 7500 => tax = R(49)

\* the tax of a price of exactly 50 was computed
C8_Witness ==
    /\ call.fn = "calculate_brazilian_tax"
    /\ call.usd_price = R(50)
    /\ call.result = R(22)

\* C9: calculate_final_price_brl(p, rate) returns (total, tax_domestic, base)
\* with base = p * rate, tax_domestic = calculate_brazilian_tax(p) * rate and
\* total = base + tax_domestic; p = 100, rate = 5 gives tax 72, base 500,
\* tax_domestic 360, total 860.
C9_LandedPrice ==
    (call.fn = "calculate_final_price_brl" /\ call.usd_to_brl_rate # None) =>
        LET p == call.usd_price
            rate == call.usd_to_brl_rate[1]
            total == call.result[1]
            tax_domestic == call.result[2]
            base == call.result[3]
        IN  /\ Len(call.result) = 3
            /\ Num(base) * Den(p) * Den(rate) = Num(p) * Num(rate) * Den(base)
            /\ tax_domestic = RMul(calculate_brazilian_tax(p), rate)
            /\ RSub(total, base) = tax_domestic
            /\ (p = R(100) /\ rate = R(5)) =>
                   /\ calculate_brazilian_tax(p) = R(72)
                   /\ call.result = <<R(860), R(360), R(500)>>

\* the landed price of 100 at rate 5 was computed
C9_Witness ==
    /\ call.fn = "calculate_final_price_brl"
    /\ call.usd_price = R(100)
    /\ call.usd_to_brl_rate = Some(R(5))
    /\ call.result[1] = R(860)

\* deal a of a list is ranked ahead of deal b: a larger discount, or the same
\* discount and an earlier place in the list
RankedAhead(a, b) ==
    \/ RGt(a.discount_percent, b.discount_percent)
    \/ a.discount_percent = b.discount_percent /\ a.tag < b.tag

\* C7: filter_best_deals(deals, max_deals, min_discount), for every
\* max_deals >= 0 and every min_discount >= 0 that is passed (0 included),
\* returns exactly the deals with discount_percent >= min_discount, ordered by
\* descending discount_percent with equal discounts in their original order,
\* truncated to the first max_deals; discounts [12, 45, 8, 30] with
\* min_discount 10 and max_deals 2 give [45, 30].
C7_RankerContract ==
    (call.fn = "filter_best_deals" /\ call.min_discount # None) =>
        LET list == call.deals
            out == call.result
            kept == {k \in 1..Len(list) :
                        RGe(list[k].discount_percent, call.min_discount[1])}
            expected == IF Cardinality(kept) < call.max_deals
                        THEN Cardinality(kept) ELSE call.max_deals
        IN  /\ Len(out) = expected
            /\ \A k \in 1..Len(out) : out[k].tag \in kept /\ out[k] = list[out[k].tag]
            /\ \A k \in 1..(Len(out) - 1) : RankedAhead(out[k], out[k + 1])
            /\ \A k \in kept :
                   (\A n \in 1..Len(out) : out[n].tag # k) =>
                       \A n \in 1..Len(out) : RankedAhead(out[n], list[k])
            /\ ( /\ Len(list) = 4
                 /\ [k \in 1..4 |-> list[k].discount_percent] = <<R(12), R(45), R(8), R(30)>>
                 /\ call.min_discount = Some(R(10))
                 /\ call.max_deals = 2 ) =>
                   [k \in 1..Len(out) |-> out[k].discount_percent] = <<R(45), R(30)>>

\* the same contract for the calls that pass a positive minimum
C7_RankerContractPositive ==
    (call.fn = "filter_best_deals" => call.min_discount # Some(R(0))) => C7_RankerContract

(***************************************************************************)
(* deals_tracker.py: the history store                                     *)
(***************************************************************************)
\* a row of sent_deals; sent_at defaults to CURRENT_TIMESTAMP, the UTC clock
SentDeal(id, deal, telegram_message_id, sent_at) ==
    [id |-> id, product_name |-> deal.product.name,
     product_link |-> deal.product.aliexpress_link,
     original_price |-> deal.original_price, deal_price |-> deal.current_price,
     discount_percent |-> deal.discount_percent,
     affiliate_link |-> deal.affiliate_link,
     telegram_message_id |-> telegram_message_id,
     product_id |-> deal.product_id, sent_at |-> sent_at, is_active |-> TRUE]

\* DealsTracker.was_deal_sent_recently(product_link, hours): the cutoff is
\* datetime.now() - timedelta(hours), the local wall clock, and is compared
\* with the rows' UTC sent_at
was_deal_sent_recently(product_link, hours) ==
    LET cutoff == (now + env.TZ) - hours
    IN  \E n \in 1..Len(sent_deals) :
            /\ sent_deals[n].product_link = product_link
            /\ sent_deals[n].sent_at > cutoff

\* DealsTracker.record_sent_deal, the INSERT committed
record_sent_deal(deal, telegram_message_id) ==
    Append(sent_deals,
           SentDeal(Len(sent_deals) + 1, deal, telegram_message_id, now))

(***************************************************************************)
(* deals_checker.py: check_all_products                                    *)
(***************************************************************************)
\* the mutant of ProductsToCheck: the history is not consulted
RECURSIVE ProductsToCheck_M(_, _, _, _)
ProductsToCheck_M(list, k, skip_recent, recent_hours) ==
    IF k > Len(list) THEN <<>>
    ELSE IF list[k].aliexpress_link = <<>>
    THEN ProductsToCheck_M(list, k + 1, skip_recent, recent_hours)
    ELSE <<k>> \o ProductsToCheck_M(list, k + 1, skip_recent, recent_hours)

\* lines 396-406: the indices, from k on, of the products a coroutine is
\* created for (products_to_check)
RECURSIVE ProductsToCheck(_, _, _, _)
ProductsToCheck(list, k, skip_recent, recent_hours) ==
    IF k > Len(list) THEN <<>>
    ELSE IF list[k].aliexpress_link = <<>>
    THEN ProductsToCheck(list, k + 1, skip_recent, recent_hours)
    ELSE IF skip_recent /\ was_deal_sent_recently(list[k].aliexpress_link, recent_hours)
    THEN ProductsToCheck(list, k + 1, skip_recent, recent_hours)
    ELSE <<k>> \o ProductsToCheck(list, k + 1, skip_recent, recent_hours)

\* the mutant of StartBatch: every coroutine not yet started is started
StartBatch_M(list, tasklist, offset) ==
    [t \in 1..Len(tasklist) |->
        IF offset < t
        THEN EvalBegin(tasklist[t], list[tasklist[t].product])
        ELSE tasklist[t]]

\* asyncio.gather(*tasks[offset:offset + batch_size]): every coroutine of the
\* batch runs to its first await
StartBatch(list, tasklist, offset) ==
    [t \in 1..Len(tasklist) |->
        IF offset < t /\ t <= offset + batch_size
        THEN EvalBegin(tasklist[t], list[tasklist[t].product])
        ELSE tasklist[t]]

\* the mutant of BatchDeals: the first exception of a batch ends the
\* collection of the batch
RECURSIVE BatchDeals_M(_, _, _)
BatchDeals_M(tasklist, t, last) ==
    IF t > last \/ t > Len(tasklist) \/ tasklist[t].reason = "exception" THEN <<>>
    ELSE (IF tasklist[t].result # None THEN <<tasklist[t].result[1]>> ELSE <<>>)
         \o BatchDeals_M(tasklist, t + 1, last)

\* a second mutant of BatchDeals: the Deals of the batch are collected last
\* coroutine first
RECURSIVE BatchDeals_M2(_, _, _)
BatchDeals_M2(tasklist, t, last) ==
    IF t > last \/ t > Len(tasklist) THEN <<>>
    ELSE BatchDeals_M2(tasklist, t + 1, last)
         \o (IF tasklist[t].result # None THEN <<tasklist[t].result[1]>> ELSE <<>>)

\* lines 414-418: the Deals of the gathered batch, in the order of the batch
RECURSIVE BatchDeals(_, _, _)
BatchDeals(tasklist, t, last) ==
    IF t > last \/ t > Len(tasklist) THEN <<>>
    ELSE (IF tasklist[t].result # None THEN <<tasklist[t].result[1]>> ELSE <<>>)
         \o BatchDeals(tasklist, t + 1, last)

(***************************************************************************)
(* telegram_notifier.py: send_deals_batch and send_deal                    *)
(***************************************************************************)
\* _create_deal_keyboard(deal) is not None; the catalog's review links are
\* not modelled, so the keyboard has the buy button or nothing
HasKeyboard(deal) ==
    deal.affiliate_link # <<>> /\ StartsWith(deal.affiliate_link, S_http)

\* _format_deal_message, lines 60-73: the current price with taxes shown in
\* the message, recomputed from deal.current_price and deal.currency
current_final_brl(deal, exchange_rate) ==
    LET in_brl == Upper(deal.currency) = BRL
        current_price_usd == IF in_brl THEN RDiv(deal.current_price, exchange_rate)
                             ELSE deal.current_price
        current_base_brl == IF in_brl THEN deal.current_price
                            ELSE RMul(deal.current_price, exchange_rate)
        current_tax_usd == calculate_brazilian_tax(current_price_usd)
        current_tax_brl == RMul(current_tax_usd, exchange_rate)
    IN  RAdd(current_base_brl, current_tax_brl)

\* a message posted in the channel
Message(message_id, kind, deal) ==
    [message_id |-> message_id, kind |-> kind, deal |-> deal,
     date |-> now, run |-> runs]

\* send_deals_batch after send_deal returned for deals[k - 1]: line 289
AfterSendDeal(list, k, message_ids) ==
    IF k - 1 < Len(list) - 1
    THEN [pc |-> "sleep", k |-> k, message_ids |-> message_ids]
    ELSE [pc |-> "return", k |-> k, message_ids |-> message_ids]

\* send_deals_batch entering the iteration of deals[k - 1], send_deal running
\* to its first await
SendDealBegin(list, k, message_ids) ==
    IF ~HasKeyboard(list[k]) THEN AfterSendDeal(list, k, message_ids)
    ELSE IF list[k].image_url # None /\ list[k].image_url[1] # <<>>
    THEN [pc |-> "photo", k |-> k, message_ids |-> message_ids]
    ELSE [pc |-> "text", k |-> k, message_ids |-> message_ids]

\* send_deals_batch(deals, max_deals=max_deals) up to its first await
SendBatchBegin(list, max_deals) ==
    IF Slice(list, max_deals) = <<>>
    THEN [pc |-> "return", k |-> 0, message_ids |-> <<>>]
    ELSE SendDealBegin(list, 1, <<>>)

(***************************************************************************)
(* deals_bot.py: run_check                                                 *)
(***************************************************************************)
\* line 258 of google_sheets.py
HasAliexpressLink(product) ==
    product.aliexpress_link # <<>> /\ Contains(Lower(product.aliexpress_link), S_aliexpress)

get_products_with_aliexpress_links(all_products) ==
    SelectSeq(all_products, HasAliexpressLink)

\* line 120: max_deals or MAX_DEALS_PER_RUN, run_check called without
\* max_deals
max_to_send == env.MAX_DEALS_PER_RUN

\* the mutant of send_deals: the --no-send flag is ignored
send_deals_M == TRUE

\* lines 283-284: run_check(send_deals=not args.no_send); run_continuous
\* calls run_check() and the process environment then carries no such flag
send_deals == IF "no_send" \in DOMAIN env THEN ~env.no_send ELSE TRUE

\* lines 112-143, after check_all_products returned found: the ranking and
\* the start of the sending
AfterCheck(found) ==
    IF found = <<>>
    THEN [best_deals |-> <<>>, send |-> [pc |-> "return", k |-> 0, message_ids |-> <<>>]]
    ELSE LET best == filter_best_deals(found, max_to_send, None,
                                       env.MIN_DISCOUNT_PERCENT)
         IN  [best_deals |-> best,
              send |-> IF send_deals /\ best # <<>>
                       THEN SendBatchBegin(best, max_to_send)
                       ELSE [pc |-> "return", k |-> 0, message_ids |-> <<>>]]

\* the rows the sheet reader can return: an empty sheet, or six rows of which
\* two are evaluated side by side in the first batch and the last in the
\* second batch; P_c2 is listed at a price the listing never beats
P_b == Product("B", R(100), R(145), L_b)
P_c == Product("C", R(0), R(80), L_c)
P_d == Product("D", R(100), R(145), L_tooShort)
P_c2 == Product("C2", R(0), R(50), L_c)
P_b2 == Product("B2", R(100), R(145), L_b)
Catalogs ==
    {<<>>, <<P_d, P_d, P_d, P_c2, P_c, P_b>>}

\* a sheet that lists one link in two rows, evaluated in different batches
DupCatalogs ==
    {<<P_d, P_d, P_d, P_c2, P_b, P_b2>>}

MaxRuns == 2
MaxTime == 2

\* run_check returns: its locals are gone
Returned_run_check(deals_sent) ==
    /\ phase' = "idle"
    /\ results' = [results EXCEPT !.deals_sent = deals_sent]
    /\ products' = <<>>
    /\ tasks' = <<>>
    /\ i' = 0
    /\ deals' = <<>>
    /\ best_deals' = <<>>
    /\ send' = NoSend

\* run_check from its call to the first await: the sheet is read, the history
\* is consulted for every product, the first batch is started
StartRunWith(catalogs) ==
    /\ phase = "idle"
    /\ call = NoCall
    /\ runs < MaxRuns
    /\ runs' = runs + 1
    /\ \E fetched \in {Unreadable} \cup {Readable(rows) : rows \in catalogs} :
          LET found == get_products_with_aliexpress_links(get_all_products(fetched))
              to_check == ProductsToCheck(found, 1, TRUE, env.DUPLICATE_CHECK_HOURS)
              created == [t \in 1..Len(to_check) |-> NewTask(to_check[t])]
          IN  /\ sheet' = fetched.readable
              /\ IF found = <<>> \/ created = <<>>
                 THEN /\ phase' = "idle"
                      /\ results' = [NoResults EXCEPT !.products_checked = Len(found)]
                      /\ products' = <<>>
                      /\ tasks' = <<>>
                 ELSE /\ phase' = "gather"
                      /\ results' = [NoResults EXCEPT !.products_checked = Len(found)]
                      /\ products' = found
                      /\ tasks' = StartBatch(found, created, 0)
    /\ i' = 0
    /\ deals' = <<>>
    /\ best_deals' = <<>>
    /\ send' = NoSend
    /\ UNCHANGED <<env, USD_TO_BRL_RATE, now, sent_deals, channel, call>>

\* run_continuous calls run_check again and again, mode check calls it once
StartRun == (send_deals \/ runs = 0) /\ StartRunWith(Catalogs)
StartRunDup == StartRunWith(DupCatalogs)

\* the mutant of MoreBatches: the pause is taken only after a batch in which
\* an evaluation raised
MoreBatches_M(offset, tasklist) ==
    /\ offset + batch_size < Len(tasklist)
    /\ \E t \in (offset + 1)..(offset + batch_size) : tasklist[t].reason = "exception"

\* line 421: batches remain after the one at offset
MoreBatches(offset, tasklist) == offset + batch_size < Len(tasklist)

\* asyncio.gather returns for the batch at offset i; the finished coroutines
\* stay on record until run_check returns
Gathered ==
    /\ phase = "gather"
    /\ \A t \in Running : tasks[t].pc = "done"
    /\ LET found == deals \o BatchDeals(tasks, i + 1, i + batch_size)
       IN  IF MoreBatches(i, tasks)
           THEN /\ phase' = "sleep"
                /\ deals' = found
                /\ UNCHANGED <<products, tasks, i, best_deals, send, results>>
           ELSE LET next == AfterCheck(found)
                IN  IF next.send.pc = "return"
                    THEN /\ phase' = "idle"
                         /\ results' = [results EXCEPT !.deals_found = Len(found)]
                         /\ products' = <<>>
                         /\ tasks' = <<>>
                         /\ i' = 0
                         /\ deals' = found
                         /\ best_deals' = <<>>
                         /\ send' = NoSend
                    ELSE /\ phase' = "send"
                         /\ results' = [results EXCEPT !.deals_found = Len(found)]
                         /\ deals' = found
                         /\ best_deals' = next.best_deals
                         /\ send' = next.send
                         /\ UNCHANGED <<products, tasks, i>>
    /\ UNCHANGED <<sheet, env, USD_TO_BRL_RATE, now, sent_deals, channel, runs, call>>

\* line 422: asyncio.sleep(2) returns, the next batch is gathered
BatchSlept ==
    /\ phase = "sleep"
    /\ i' = i + batch_size
    /\ tasks' = StartBatch(products, tasks, i + batch_size)
    /\ phase' = "gather"
    /\ UNCHANGED <<sheet, env, USD_TO_BRL_RATE, now, sent_deals, channel, products,
                   deals, best_deals, send, results, runs, call>>

\* send_deals_batch goes on from the position next
SendContinue(next) ==
    IF next.pc = "return"
    THEN Returned_run_check(Len(next.message_ids))
    ELSE /\ send' = next
         /\ UNCHANGED <<phase, results, products, tasks, i, deals, best_deals>>

\* the mutant of Posted: an error raised after the photo was posted is
\* caught by the inner handler, which goes on to the text message
Posted_M(kind) ==
    LET deal == best_deals[send.k]
        message_id == Len(channel) + 1
    IN  /\ channel' = Append(channel, Message(message_id, kind, deal))
        /\ \/ /\ sent_deals' = record_sent_deal(deal, message_id)
              /\ SendContinue(AfterSendDeal(best_deals, send.k,
                                            Append(send.message_ids, message_id)))
           \/ /\ UNCHANGED sent_deals
              /\ IF kind = "photo"
                 THEN /\ send' = [send EXCEPT !.pc = "text"]
                      /\ UNCHANGED <<phase, results, products, tasks, i, deals, best_deals>>
                 ELSE SendContinue(AfterSendDeal(best_deals, send.k, send.message_ids))

\* the outcomes of a post that Telegram accepted: the message is in the
\* channel, record_sent_deal commits its row or raises
Posted(kind) ==
    LET deal == best_deals[send.k]
        message_id == Len(channel) + 1
    IN  /\ channel' = Append(channel, Message(message_id, kind, deal))
        /\ \/ /\ sent_deals' = record_sent_deal(deal, message_id)
              /\ SendContinue(AfterSendDeal(best_deals, send.k,
                                            Append(send.message_ids, message_id)))
           \/ /\ UNCHANGED sent_deals
              /\ SendContinue(AfterSendDeal(best_deals, send.k, send.message_ids))

\* bot.send_photo returns or raises TelegramError
OnPhotoSent ==
    /\ phase = "send"
    /\ send.pc = "photo"
    /\ \/ Posted("photo")
       \/ /\ send' = [send EXCEPT !.pc = "text"]
          /\ UNCHANGED <<sent_deals, channel, phase, results, products, tasks, i,
                         deals, best_deals>>
    /\ UNCHANGED <<sheet, env, USD_TO_BRL_RATE, now, runs, call>>

\* bot.send_message returns or raises TelegramError
OnTextSent ==
    /\ phase = "send"
    /\ send.pc = "text"
    /\ \/ Posted("text")
       \/ /\ UNCHANGED <<sent_deals, channel>>
          /\ SendContinue(AfterSendDeal(best_deals, send.k, send.message_ids))
    /\ UNCHANGED <<sheet, env, USD_TO_BRL_RATE, now, runs, call>>

\* line 290: asyncio.sleep(delay_seconds) returns
SendSlept ==
    /\ phase = "send"
    /\ send.pc = "sleep"
    /\ IF send.k + 1 <= Len(Slice(best_deals, max_to_send))
       THEN SendContinue(SendDealBegin(best_deals, send.k + 1, send.message_ids))
       ELSE Returned_run_check(Len(send.message_ids))
    /\ UNCHANGED <<sheet, env, USD_TO_BRL_RATE, now, sent_deals, channel, runs, call>>

\* run_continuous: asyncio.sleep(check_interval_seconds) after a run, an hour
\* of it passes; a run itself is short against the hour
Tick ==
    /\ send_deals
    /\ phase = "idle"
    /\ runs > 0
    /\ now < MaxTime
    /\ now' = now + 1
    /\ UNCHANGED <<sheet, env, USD_TO_BRL_RATE, sent_deals, channel, phase, products,
                   tasks, i, deals, best_deals, send, results, runs, call>>

RunEnvs ==
    {Env(0, R(5), 1, 10, R(10)), Env(2, R(5), 1, 1, R(10))}

\* `--mode check --no-send`
CheckEnvs == {Env(0, R(5), 1, 10, R(10)) @@ [no_send |-> TRUE]}

\* what an earlier process left behind: the deal of product C, published and
\* recorded at time 0
OldDeal ==
    Deal(P_c, R(40), R(80), R(28), Rat(112, 5), L_c, ID_c, None, <<"C">>, 0)
OldMessage == [message_id |-> 1, kind |-> "text", deal |-> OldDeal, date |-> 0, run |-> 0]

\* a process started with --no-send on the store of the earlier process
InitStored ==
    /\ InitProcess(CheckEnvs)
    /\ sent_deals = <<SentDeal(1, OldDeal, 1, 0)>>
    /\ channel = <<OldMessage>>

Init == InitWith(RunEnvs) \/ InitStored
Next ==
    \/ StartRun
    \/ \E t \in 1..Len(tasks) : OnResolved(t)
    \/ \E t \in 1..Len(tasks) : OnFetched(t)
    \/ \E t \in 1..Len(tasks) : OnLinked(t)
    \/ Gathered
    \/ BatchSlept
    \/ OnPhotoSent
    \/ OnTextSent
    \/ SendSlept
    \/ Tick
Spec == Init /\ [][Next]_vars

\* the runs over a sheet that lists one link twice, the local clock three
\* hours behind UTC
DupEnvs == {Env(-3, R(5), 1, 10, R(10))}
InitDup == InitWith(DupEnvs)
NextDup ==
    \/ StartRunDup
    \/ \E t \in 1..Len(tasks) : OnResolved(t)
    \/ \E t \in 1..Len(tasks) : OnFetched(t)
    \/ \E t \in 1..Len(tasks) : OnLinked(t)
    \/ Gathered
    \/ BatchSlept
    \/ OnPhotoSent
    \/ OnTextSent
    \/ SendSlept
    \/ Tick
SpecDup == InitDup /\ [][NextDup]_vars

(***************************************************************************)
(* Claims about the runs, checked under Spec                               *)
(***************************************************************************)
\* check_all_products is running: a batch is gathered or the loop sleeps
\* between two batches; the clock and the history are those of the prefilter
InCheckAllProducts == phase \in {"gather", "sleep"}

\* C1: in check_all_products (skip_recent on, tracker supplied), for every
\* product whose link makes was_deal_sent_recently(link, recent_hours) return
\* true, no short-link resolution, no price lookup and no affiliate-link
\* generation call is made in that run, and no Deal for it is returned.
C1_SkippedUntouched ==
    InCheckAllProducts =>
        \A k \in 1..Len(products) :
            was_deal_sent_recently(products[k].aliexpress_link,
                                   env.DUPLICATE_CHECK_HOURS) =>
                /\ \A t \in 1..Len(tasks) :
                       tasks[t].product = k =>
                           /\ tasks[t].resolve_calls = <<>>
                           /\ tasks[t].lookup_calls = <<>>
                           /\ tasks[t].link_calls = <<>>
                           /\ tasks[t].result = None
                /\ \A n \in 1..Len(deals) : deals[n].product # products[k]

\* a run skips a product of the catalog and looks up another one
C1_Witness ==
    /\ InCheckAllProducts
    /\ \E k \in 1..Len(products) :
           /\ was_deal_sent_recently(products[k].aliexpress_link,
                                     env.DUPLICATE_CHECK_HOURS)
           /\ \A t \in 1..Len(tasks) : tasks[t].product # k
    /\ \E t \in 1..Len(tasks) : tasks[t].lookup_calls # <<>>

\* C2: once send_deal has published a Deal for link L and recorded it, every
\* check_all_products run that starts less than recent_hours hours later
\* skips L: no coroutine evaluates a product with link L in such a run, and
\* no later run publishes L inside the window.
C2_NoRepeatInWindow ==
    /\ InCheckAllProducts =>
           \A n \in 1..Len(sent_deals), t \in 1..Len(tasks) :
               now - sent_deals[n].sent_at < env.DUPLICATE_CHECK_HOURS =>
                   products[tasks[t].product].aliexpress_link
                       # sent_deals[n].product_link
    /\ \A n \in 1..Len(sent_deals), m \in 1..Len(channel) :
           ( /\ channel[m].deal.product.aliexpress_link = sent_deals[n].product_link
             /\ channel[sent_deals[n].telegram_message_id].run < channel[m].run )
           => channel[m].date - sent_deals[n].sent_at >= env.DUPLICATE_CHECK_HOURS

\* the same statement where the local clock is not ahead of UTC
C2_NoRepeatInWindowWest == env.TZ <= 0 => C2_NoRepeatInWindow

\* the redirect expansion timed out, raised, or ended with a status other
\* than 200
FailedRedirect(response) ==
    response.kind \in {"timeout", "error"} \/ response.status # 200

\* C12: for a link matching the shortened/redirect pattern, if the redirect
\* expansion times out, raises, or ends with a non-200 final status,
\* resolve_short_link returns None without raising, and the evaluation of that
\* product is rejected with no price lookup performed.
C12_FailedRedirectRejected ==
    \A t \in Tasks :
        ( /\ tasks[t].resolve_response # None
          /\ FailedRedirect(tasks[t].resolve_response[1]) ) =>
            /\ SHORT_LINK_REGEX(ProductOf(t).aliexpress_link)
            /\ tasks[t].resolved_url = None
            /\ Returned(t) /\ ~HasDeal(t)
            /\ tasks[t].reason = "unresolvable"
            /\ tasks[t].lookup_calls = <<>>
            /\ tasks[t].link_calls = <<>>

\* the expansion of a short link ended with a 404
C12_Witness ==
    \E t \in Tasks :
        /\ tasks[t].resolve_response = Some(HttpResponse(404, L_short))
        /\ tasks[t].reason = "unresolvable"

(***************************************************************************)
(* Claims about failures inside a run, checked under Spec                  *)
(***************************************************************************)
\* the price lookup of coroutine t has returned an error or a sale price <= 0
LookupFailed(t) ==
    /\ tasks[t].lookup_calls # <<>>
    /\ tasks[t].pc # "await_fetch"
    /\ \/ tasks[t].details = None
       \/ RLe(tasks[t].details[1].sale_price, R(0))

\* a row of the history is a row of the product of coroutine t
RowOf(row, t) ==
    /\ row.product_name = products[tasks[t].product].name
    /\ row.product_link = products[tasks[t].product].aliexpress_link

\* what holds of every coroutine whose lookup failed
C11_NoDealNoLinkCall ==
    \A t \in 1..Len(tasks) :
        LookupFailed(t) =>
            /\ tasks[t].pc = "done"
            /\ tasks[t].result = None
            /\ tasks[t].link_calls = <<>>
            /\ Len(tasks[t].lookup_calls) = 1
            /\ \A u \in 1..Len(tasks) : u # t => tasks[u].product # tasks[t].product
            /\ \A n \in 1..Len(deals) : deals[n].product # products[tasks[t].product]

\* no step of the run writes a row for a product whose lookup failed
C11_NoRowWritten ==
    \A t \in 1..Len(tasks) :
        LookupFailed(t) =>
            \A n \in 1..Len(sent_deals') :
                n > Len(sent_deals) => ~RowOf(sent_deals'[n], t)

\* C11: when the price lookup for a product returns any error or a sale price
\* <= 0, the product yields no Deal, no affiliate-link call is made for it,
\* nothing is written to the history for it, and the lookup is not called
\* again for it within the same run.
C11_LookupFailureIsFinal == [](C11_NoDealNoLinkCall) /\ [][C11_NoRowWritten]_vars

\* a lookup failed for one product and the run is publishing another one
C11_Witness ==
    /\ phase = "send"
    /\ send.pc \in {"photo", "text"}
    /\ \E t \in 1..Len(tasks) : LookupFailed(t)

\* the Deals the coroutines 1..last returned, in the order of the coroutines
ReturnedDeals(last) ==
    LET yielded == SelectSeq(SubSeq(tasks, 1, last), LAMBDA task : task.result # None)
    IN  [n \in 1..Len(yielded) |-> yielded[n].result[1]]

\* the last coroutine of the batch being gathered
LastOfBatch == IF i + batch_size < Len(tasks) THEN i + batch_size ELSE Len(tasks)

\* a coroutine in which an exception was raised returned no Deal, and run_check
\* saw no error
C13_Excluded ==
    /\ results.errors = <<>>
    /\ \A t \in 1..Len(tasks) :
           tasks[t].reason = "exception" => tasks[t].pc = "done" /\ tasks[t].result = None

\* when gather returns for a batch, every coroutine up to the end of the batch
\* has run to its end and the Deals found so far are exactly those the
\* coroutines returned; after the last batch that is the run's deals_found
C13_SiblingsReturned ==
    (phase = "gather" /\ phase' # "gather") =>
        /\ \A t \in 1..LastOfBatch : tasks[t].pc = "done"
        /\ phase' \in {"sleep", "send"} => deals' = ReturnedDeals(LastOfBatch)
        /\ phase' = "sleep" => LastOfBatch < Len(tasks)
        /\ phase' \in {"send", "idle"} =>
               /\ LastOfBatch = Len(tasks)
               /\ results'.deals_found = Len(ReturnedDeals(Len(tasks)))

\* C13: an exception raised inside one product's evaluation never propagates
\* out of check_all_products: that product is excluded, and every other
\* product of the same batch and of all later batches is still evaluated and
\* its Deal, if any, is returned.
C13_ExceptionContained == [](C13_Excluded) /\ [][C13_SiblingsReturned]_vars

\* an evaluation of the first batch raised, a sibling of the batch and a
\* product of the second batch returned their Deals
C13_Witness ==
    /\ phase = "send"
    /\ \E t \in 1..batch_size : tasks[t].reason = "exception"
    /\ \E t \in 1..batch_size : tasks[t].result # None
    /\ \E t \in (batch_size + 1)..Len(tasks) : tasks[t].result # None
    /\ Len(deals) = 2

\* the store holds a row for the link that was sent less than hours hours ago
SentWithin(product_link, hours) ==
    \E n \in 1..Len(sent_deals) :
        /\ sent_deals[n].product_link = product_link
        /\ now - sent_deals[n].sent_at < hours

\* C14: was_deal_sent_recently(link, hours) returns true exactly when the
\* store holds a record for that link whose sent time is less than hours hours
\* before the current time: for a link recorded 2 hours ago it is true with a
\* 24-hour window and false with a 1-hour window.
C14_WindowExact ==
    \A product_link \in {L_b, L_c}, hours \in {1, 24} :
        was_deal_sent_recently(product_link, hours) <=> SentWithin(product_link, hours)

\* C15: no product is ever left published but not recorded: whenever send_deal
\* has posted a deal to the channel, a history record for that deal's product
\* link exists by the time send_deal returns, a failing history write included.
C15_PublishedIsRecorded ==
    \A m \in 1..Len(channel) :
        \E n \in 1..Len(sent_deals) :
            sent_deals[n].product_link = channel[m].deal.product.aliexpress_link

\* C16: if the same product link occurs more than once in the catalog of one
\* run, at most one Deal for that link is published and at most one history
\* record for that link is written during that run.
C16_OncePerLinkPerRun ==
    /\ \A m, n \in 1..Len(channel) :
           ( /\ channel[m].run = channel[n].run
             /\ channel[m].deal.product.aliexpress_link
                    = channel[n].deal.product.aliexpress_link ) => m = n
    /\ \A m, n \in 1..Len(sent_deals) :
           ( /\ channel[sent_deals[m].telegram_message_id].run
                    = channel[sent_deals[n].telegram_message_id].run
             /\ sent_deals[m].product_link = sent_deals[n].product_link ) => m = n

\* C17: when the catalog is entirely unreadable (every sheet fetch fails),
\* run_check surfaces a run-level error to its caller (a non-empty errors
\* result) and produces zero deals, rather than reporting a normal run.
C17_UnreadableIsError ==
    (runs > 0 /\ phase = "idle" /\ ~sheet) =>
        /\ results.errors # <<>>
        /\ results.deals_found = 0
        /\ results.deals_sent = 0

(***************************************************************************)
(* check_product_for_deal called twice in a row for one product            *)
(***************************************************************************)
TwiceProducts ==
    {Product("A", R(100), R(145), L_item), Product("B", R(100), R(145), L_short)}

TwiceEnvs == {Env(0, R(5), 24, 10, R(10))}

\* the first call, up to its first await
TwiceCall ==
    /\ phase = "idle"
    /\ tasks = <<>>
    /\ \E product \in TwiceProducts :
          /\ products' = <<product>>
          /\ tasks' = <<EvalBegin(NewTask(1), product)>>
    /\ phase' = "twice"
    /\ UNCHANGED <<sheet, env, USD_TO_BRL_RATE, now, sent_deals, channel,
                   i, deals, best_deals, send, results, runs, call>>

\* the first call has returned; the second call for the same product, at once
\* or an hour later, up to its first await
TwiceAgain ==
    /\ phase = "twice"
    /\ Len(tasks) = 1
    /\ tasks[1].pc = "done"
    /\ tasks' = Append(tasks, EvalBegin(NewTask(1), products[1]))
    /\ \E hours \in {0, 1} : now' = now + hours
    /\ UNCHANGED <<sheet, env, USD_TO_BRL_RATE, sent_deals, channel, phase, products,
                   i, deals, best_deals, send, results, runs, call>>

\* the second call has returned; both results stay with the caller
TwiceReturn ==
    /\ phase = "twice"
    /\ Len(tasks) = 2
    /\ tasks[2].pc = "done"
    /\ phase' = "idle"
    /\ UNCHANGED <<sheet, env, USD_TO_BRL_RATE, now, sent_deals, channel, products,
                   tasks, i, deals, best_deals, send, results, runs, call>>

InitTwice == InitWith(TwiceEnvs)
NextTwice ==
    \/ TwiceCall
    \/ \E t \in 1..Len(tasks) : OnResolved(t)
    \/ \E t \in 1..Len(tasks) : OnFetched(t)
    \/ \E t \in 1..Len(tasks) : OnLinked(t)
    \/ TwiceAgain
    \/ TwiceReturn
SpecTwice == InitTwice /\ [][NextTwice]_vars

\* both calls have returned and the remote services answered the second call
\* as they answered the first
SameResponses ==
    /\ Len(tasks) = 2
    /\ tasks[1].pc = "done" /\ tasks[2].pc = "done"
    /\ tasks[1].resolve_response = tasks[2].resolve_response
    /\ tasks[1].details = tasks[2].details
    /\ tasks[1].link_response = tasks[2].link_response

\* C18: re-evaluating the same product twice with identical lookup and
\* link-generation responses, the same configured exchange rate and no history
\* entry yields two Deals equal in every field except checked_at (or two
\* rejections).
C18_Idempotent ==
    SameResponses =>
        \/ tasks[1].result = None /\ tasks[2].result = None
        \/ /\ tasks[1].result # None /\ tasks[2].result # None
           /\ [tasks[1].result[1] EXCEPT !.checked_at = 0]
                  = [tasks[2].result[1] EXCEPT !.checked_at = 0]

\* the same answers an hour apart: two Deals that differ in checked_at
C18_Witness ==
    /\ SameResponses
    /\ sent_deals = <<>>
    /\ tasks[1].result # None /\ tasks[2].result # None
    /\ tasks[1].result[1].checked_at # tasks[2].result[1].checked_at

\* the same failed answers: two rejections
C18_WitnessRejected ==
    /\ SameResponses
    /\ tasks[1].details = None /\ tasks[1].lookup_calls # <<>>
    /\ tasks[1].result = None /\ tasks[2].result = None

(***************************************************************************)
(* More claims about the pure functions, checked under SpecPure            *)
(***************************************************************************)
\* calculate_brazilian_tax(21.74) has been called
TaxOf2174 == call.fn = "calculate_brazilian_tax" /\ call.usd_price = Rat(2174, 100)

\* C19, as stated: for a foreign price of 21.74 the computed import tax is 0
\* (the tax-free crossover of the 0.92 * price - 20 formula, floored at 0).
C19_CrossoverIsZero == TaxOf2174 => call.result = R(0)

\* C19: for a foreign price of 21.74 the computed import tax is
\* 0.44 * 21.74 = 9.5656: the price lies in the tier (0, 50], the
\* 0.92 * price - 20 formula applies above 50 only.
C19_CrossoverInLowTier == TaxOf2174 => call.result = Rat(95656, 10000)

\* the tax of 21.74 was computed and is not 0
C19_Witness == TaxOf2174 /\ RGt(call.result, R(0))

\* C20: the landed-price model is pure and deterministic: two calls of
\* calculate_final_price_brl with identical arguments return the identical
\* triple whatever calls of update_exchange_rate or get_exchange_rate happen
\* between them.
C20_Deterministic ==
    (call.fn = "calculate_final_price_brl" /\ call.again # None) =>
        call.again[1] = call.result

\* the same statement for the calls that pass the rate
C20_DeterministicWithRate ==
    (call.fn = "calculate_final_price_brl" /\ call.usd_to_brl_rate # None) =>
        C20_Deterministic

(***************************************************************************)
(* Claims about the order of the steps of one evaluation, under SpecEval   *)
(***************************************************************************)
\* the position of a coroutine in the sequence of its awaits
StepOf(pc) ==
    CASE pc = "ready" -> 0
      [] pc = "await_resolve" -> 1
      [] pc = "await_fetch" -> 2
      [] pc = "await_link" -> 3
      [] pc = "done" -> 4

\* what the calls made so far say about the steps passed so far
C21_CallsInOrder ==
    \A t \in Tasks :
        /\ Len(tasks[t].resolve_calls) <= 1
        /\ Len(tasks[t].lookup_calls) <= 1
        /\ Len(tasks[t].link_calls) <= 1
        /\ tasks[t].resolve_calls # <<>> <=>
               (SHORT_LINK_REGEX(ProductOf(t).aliexpress_link) /\ tasks[t].pc # "ready")
        /\ tasks[t].lookup_calls # <<>> =>
               /\ tasks[t].resolve_calls # <<>> => tasks[t].resolve_response # None
               /\ tasks[t].product_id # None
               /\ WellFormedId(tasks[t].product_id[1])
               /\ tasks[t].lookup_calls = <<tasks[t].product_id[1]>>
        /\ tasks[t].link_calls # <<>> =>
               /\ tasks[t].lookup_calls # <<>>
               /\ tasks[t].details # None
               /\ RGt(tasks[t].details[1].sale_price, R(0))
               /\ Priced(t)
               /\ RLt(tasks[t].current_final_brl[1], tasks[t].reference_price_brl[1])
               /\ tasks[t].discount_percent # None
               /\ RGe(tasks[t].discount_percent[1], env.MIN_DISCOUNT_PERCENT)
        /\ HasDeal(t) =>
               /\ tasks[t].link_calls # <<>>
               /\ tasks[t].link_response # None
               /\ DealOf(t).affiliate_link # <<>>
        /\ tasks[t].reason \in {"unresolvable", "invalid_id"} =>
               tasks[t].lookup_calls = <<>> /\ tasks[t].link_calls = <<>>
        /\ tasks[t].reason \in {"lookup_failed", "invalid_price", "no_reference",
                                "exception", "not_cheaper", "below_threshold"} =>
               tasks[t].lookup_calls # <<>> /\ tasks[t].link_calls = <<>>

\* a coroutine only moves forward, each await returns at most once, and a
\* coroutine that has returned makes no further call
C21_StepsForward ==
    \A t \in Tasks :
        t \in 1..Len(tasks') =>
            /\ StepOf(tasks'[t].pc) >= StepOf(tasks[t].pc)
            /\ tasks[t].pc = "done" => tasks'[t] = tasks[t]
            /\ tasks'[t] # tasks[t] => StepOf(tasks'[t].pc) > StepOf(tasks[t].pc)

\* C21: in every per-product evaluation the steps occur only in the order
\* resolve, lookup, price, threshold, link generation, Deal construction,
\* each external call at most once and none skipped: the lookup is called
\* only after an identifier was resolved and validated, link generation only
\* after the price passed the threshold check, a Deal is constructed only
\* after a usable link exists, and after the first rejecting step no later
\* external call is made.
C21_StepOrder == [](C21_CallsInOrder) /\ [][C21_StepsForward]_vars

\* a short link was expanded, looked up, priced, linked and returned as a Deal
C21_Witness ==
    \E t \in Tasks :
        /\ HasDeal(t)
        /\ Len(tasks[t].resolve_calls) = 1
        /\ Len(tasks[t].lookup_calls) = 1
        /\ Len(tasks[t].link_calls) = 1

\* the listing of coroutine t is priced in the domestic currency
ListedInBRL(t) == Upper(tasks[t].details[1].currency) = BRL

\* C22: Priced step: when the listing currency is the domestic currency (BRL)
\* with listing price p, current_landed = p + rate * tax(p / rate), the
\* listing price being divided by the rate before the tax model and never
\* converted twice; when the listing currency is foreign, current_landed =
\* rate * (p + tax(p)).
C22_PricedStep ==
    \A t \in Tasks :
        Priced(t) =>
            LET p == tasks[t].details[1].sale_price
                rate == tasks[t].exchange_rate[1]
                current_landed == tasks[t].current_final_brl[1]
            IN  IF ListedInBRL(t)
                THEN current_landed =
                         RAdd(p, RMul(rate, calculate_brazilian_tax(RDiv(p, rate))))
                ELSE current_landed =
                         RMul(rate, RAdd(p, calculate_brazilian_tax(p)))

\* a listing in BRL was priced at a rate other than 1, the tax not being 0
C22_Witness ==
    \E t \in Tasks :
        /\ Priced(t)
        /\ ListedInBRL(t)
        /\ tasks[t].exchange_rate[1] = R(5)
        /\ RGt(tasks[t].current_final_brl[1], tasks[t].details[1].sale_price)

\* a listing in a foreign currency was priced
C22_WitnessForeign ==
    \E t \in Tasks : Priced(t) /\ ~ListedInBRL(t) /\ tasks[t].exchange_rate[1] = R(5)

(***************************************************************************)
(* check_product_for_deal called directly while update_exchange_rate is    *)
(* called from elsewhere in the process                                    *)
(***************************************************************************)
RateEnvs == {Env(0, r, 24, 10, R(10)) : r \in {R(5), Rat(6, 5)}}

InitRate == InitWith(RateEnvs)
NextRate ==
    \/ DirectCall
    \/ \E t \in 1..Len(tasks) : OnResolved(t)
    \/ \E t \in 1..Len(tasks) : OnFetched(t)
    \/ \E t \in 1..Len(tasks) : OnLinked(t)
    \/ DirectReturn
    \/ UpdateExchangeRate
SpecRate == InitRate /\ [][NextRate]_vars

\* the landed price computed from the listing price p with one rate
LandedWith(p, in_brl, rate) ==
    IF in_brl THEN RAdd(p, RMul(rate, calculate_brazilian_tax(RDiv(p, rate))))
    ELSE RMul(rate, RAdd(p, calculate_brazilian_tax(p)))

\* the rate an evaluation has read is the one its normalisation and its landed
\* price were computed with, and the Deal's discount comes from that price
C23_OneRateInMath ==
    \A t \in Tasks :
        /\ Priced(t) =>
               /\ tasks[t].exchange_rate # None
               /\ tasks[t].current_final_brl[1] =
                      LandedWith(tasks[t].details[1].sale_price, ListedInBRL(t),
                                 tasks[t].exchange_rate[1])
        /\ HasDeal(t) =>
               DealOf(t).discount_amount =
                   RSub(DealOf(t).original_price,
                        LandedWith(tasks[t].details[1].sale_price, ListedInBRL(t),
                                   tasks[t].exchange_rate[1]))

\* the rate is read at most once: once read, the snapshot of an evaluation
\* stays what it is, whatever happens to the module global
C23_ReadOnce ==
    \A t \in Tasks :
        (tasks[t].exchange_rate # None /\ t \in 1..Len(tasks')) =>
            tasks'[t].exchange_rate = tasks[t].exchange_rate

\* the rate is read by the evaluations that reach the pricing of the listing,
\* and by no other
C23_ReadWhenPricing ==
    \A t \in Tasks :
        tasks[t].exchange_rate # None <=>
            \/ tasks[t].pc = "await_link"
            \/ /\ tasks[t].pc = "done"
               /\ tasks[t].reason \in {"exception", "not_cheaper", "below_threshold",
                                       "no_link", "qualified"}

\* C23, as stated: each per-product evaluation reads the process-wide
\* exchange rate exactly once.
C23_EveryEvaluationReads ==
    \A t \in Tasks : Returned(t) => tasks[t].exchange_rate # None

\* C23: each per-product evaluation reads the process-wide exchange rate at
\* most once, exactly once if it reaches the pricing of the listing and not
\* at all if it is rejected before, and uses that single snapshot for both
\* the currency normalisation and the landed-price computation of that
\* product, so no Deal's math mixes two rates even when another evaluation or
\* update_exchange_rate changes the rate concurrently.
C23_SingleSnapshot ==
    [](C23_OneRateInMath /\ C23_ReadWhenPricing) /\ [][C23_ReadOnce]_vars

\* a Deal for a BRL listing was returned after update_exchange_rate had set
\* the module global to a rate other than the snapshot of the evaluation
C23_Witness ==
    \E t \in Tasks :
        /\ HasDeal(t)
        /\ ListedInBRL(t)
        /\ tasks[t].exchange_rate[1] # USD_TO_BRL_RATE

(***************************************************************************)
(* One run of `--mode check --no-send`: check_all_products over a sheet    *)
(* whose first batch holds five links that are looked up                   *)
(***************************************************************************)
P_c3 == Product("C3", R(0), R(80), L_c)
P_c4 == Product("C4", R(0), R(50), L_c)
CheckCatalogs == {<<P_c, P_c2, P_b, P_c4, P_c3, P_b2, P_d>>}
\* main, mode check: run_check is called once
StartRunOnce ==
    /\ runs = 0
    /\ StartRunWith(CheckCatalogs)

InitCheck == InitWith(CheckEnvs)
NextCheck ==
    \/ StartRunOnce
    \/ \E t \in 1..Len(tasks) : OnResolved(t)
    \/ \E t \in 1..Len(tasks) : OnFetched(t)
    \/ \E t \in 1..Len(tasks) : OnLinked(t)
    \/ Gathered
    \/ BatchSlept
SpecCheck == InitCheck /\ [][NextCheck]_vars

\* the evaluations in flight: started and suspended in an await
InFlight == {t \in 1..Len(tasks) : tasks[t].pc \in {"await_resolve", "await_fetch", "await_link"}}

\* the batch of the coroutine created t-th, batches counted from 0
BatchOf(t) == (t - 1) \div 5

\* C24: at every moment of check_all_products at most 5 product evaluations
\* are in flight, and no evaluation of batch k+1 starts before every
\* evaluation of batch k has finished.
C24_BoundedFanOut ==
    /\ Cardinality(InFlight) <= 5
    /\ \A t, u \in 1..Len(tasks) :
           (tasks[u].pc # "ready" /\ BatchOf(t) < BatchOf(u)) => tasks[t].pc = "done"

\* five evaluations are in flight while a sixth waits for the next batch
C24_Witness ==
    /\ Cardinality(InFlight) = 5
    /\ Len(tasks) > 5
    /\ tasks[6].pc = "ready"

\* while check_all_products pauses, the batches up to the pause have finished
\* and the later ones have not started
C25_PauseBetween ==
    phase = "sleep" =>
        /\ i + 5 < Len(tasks)
        /\ \A t \in 1..Len(tasks) :
               IF t <= i + 5 THEN tasks[t].pc = "done" ELSE tasks[t].pc = "ready"

\* when gather returns the pause follows exactly if a batch remains, and an
\* evaluation of a batch after the first starts only out of the pause
C25_PauseThenStart ==
    /\ (phase = "gather" /\ phase' # "gather") =>
           (phase' = "sleep" <=> i + 5 < Len(tasks))
    /\ \A t \in 1..Len(tasks) :
           (t > 5 /\ t \in 1..Len(tasks') /\ tasks[t].pc = "ready"
                  /\ tasks'[t].pc # "ready") =>
               /\ phase = "sleep"
               /\ BatchOf(t) = (i + 5) \div 5

\* C25: between every two consecutive batches check_all_products performs the
\* fixed pause, unconditionally (whatever the results or errors of the
\* finished batch), before any evaluation of the next batch starts; no pause
\* is taken after the final batch.
C25_FixedPause == [](C25_PauseBetween) /\ [][C25_PauseThenStart]_vars

\* the pause is taken after a batch that found nothing and in which an
\* evaluation raised
C25_Witness ==
    /\ phase = "sleep"
    /\ deals = <<>>
    /\ \E t \in 1..5 : tasks[t].reason = "exception"

\* the pause is taken after a batch without errors that found deals
C25_WitnessDeals ==
    /\ phase = "sleep"
    /\ Len(deals) = 3
    /\ \A t \in 1..5 : tasks[t].reason # "exception"

\* the place of a Deal's product in the list handed to check_all_products
SubmittedAt(deal) == CHOOSE k \in 1..Len(products) : products[k] = deal.product

\* when gather returns, the Deals collected so far are results of the
\* coroutines and stand in the order in which their products were submitted
C26_InSubmissionOrder ==
    (phase = "gather" /\ phase' # "gather") =>
        /\ \A n \in 1..Len(deals') :
               /\ \E k \in 1..Len(products) : products[k] = deals'[n].product
               /\ \E t \in 1..Len(tasks) :
                      /\ tasks[t].product = SubmittedAt(deals'[n])
                      /\ tasks[t].result = Some(deals'[n])
        /\ \A n, m \in 1..Len(deals') :
               n < m => SubmittedAt(deals'[n]) < SubmittedAt(deals'[m])
        /\ \A t \in 1..LastOfBatch :
               tasks[t].result # None =>
                   \E n \in 1..Len(deals') : deals'[n] = tasks[t].result[1]

\* C26: whatever order the evaluations inside a batch complete in, the list
\* returned by check_all_products contains the qualified Deals in the
\* original submission order of their products (it is an order-preserving
\* subsequence of the input products).
C26_OrderPreserved == [][C26_InSubmissionOrder]_vars

\* the third evaluation of a batch has returned its Deal while the first,
\* which will return one, is still waiting for its link
C26_Witness ==
    /\ phase = "gather"
    /\ i = 0
    /\ tasks[3].result # None
    /\ tasks[1].pc = "await_link"

(***************************************************************************)
(* More claims about the runs, checked under Spec                          *)
(***************************************************************************)
\* C27: for every Deal the evaluator produces, the current price with taxes
\* that the notifier recomputes from deal.current_price and deal.currency
\* (with the same exchange rate) equals the current_landed value the evaluator
\* used to compute discount_percent, whether the fetched listing currency was
\* BRL or a foreign currency.
C27_MessagePriceIsLanded ==
    \A m \in 1..Len(channel) :
        LET deal == channel[m].deal
        IN  current_final_brl(deal, get_exchange_rate)
                = RSub(deal.original_price, deal.discount_amount)

(***************************************************************************)
(* Claims about the exchange rate in force, checked under SpecRate         *)
(***************************************************************************)
\* an evaluation that reads the rate gets the module global as it stands: the
\* start-up value or what update_exchange_rate last set
C28_ReadsRateInForce ==
    \A t \in Tasks :
        (t \in 1..Len(tasks') /\ tasks[t].exchange_rate = None
                              /\ tasks'[t].exchange_rate # None) =>
            tasks'[t].exchange_rate[1] = USD_TO_BRL_RATE

\* C28: an exchange-rate override is effective: after update_exchange_rate(r),
\* every later get_exchange_rate() call (and therefore every later product
\* evaluation) uses r until the next update_exchange_rate call.
C28_OverrideEffective == [][C28_ReadsRateInForce]_vars

(***************************************************************************)
(* C29                                                                     *)
(***************************************************************************)
\* the step is one send_deal call posting the deal it was given: one message
\* more in the channel and at most one row more in the store, the row of
\* that message
SendDealWrote ==
    /\ phase = "send"
    /\ send.pc \in {"photo", "text"}
    /\ send.k \in 1..Len(best_deals)
    /\ \E kind \in {"photo", "text"} :
          channel' = Append(channel, Message(Len(channel) + 1, kind, best_deals[send.k]))
    /\ sent_deals' \in {sent_deals, record_sent_deal(best_deals[send.k], Len(channel) + 1)}

\* whatever changes the store or the channel is a posting send_deal call, so
\* no step of check_all_products or filter_best_deals does
C29_OnlySendDealWrites ==
    (sent_deals' # sent_deals \/ channel' # channel) => SendDealWrote

\* a run with send_deals=False never enters the sending and leaves the store
\* and the channel as it found them
C29_NoSendKeeps ==
    env \in CheckEnvs =>
        /\ phase # "send"
        /\ sent_deals = <<SentDeal(1, OldDeal, 1, 0)>>
        /\ channel = <<OldMessage>>

C29_WitnessRecorded ==
    /\ env \in RunEnvs
    /\ sent_deals # <<>>

(***************************************************************************)
(* C30                                                                     *)
(***************************************************************************)
\* a send_deal call is awaiting Telegram
InSendDeal == phase = "send" /\ send.pc \in {"photo", "text"}

\* the same send_deal call is still awaiting Telegram after the step
SameSendDeal ==
    /\ InSendDeal
    /\ phase' = "send"
    /\ send'.pc \in {"photo", "text"}
    /\ send'.k = send.k

\* a step posts at most one message and writes at most one row, a row only
\* together with the message it names, and the call that posted is over; the
\* call that goes on from the photo to the text has posted and recorded
\* nothing
C30_PostEndsTheCall ==
    /\ Len(channel') <= Len(channel) + 1
    /\ Len(sent_deals') <= Len(sent_deals) + 1
    /\ sent_deals' # sent_deals =>
          /\ Len(channel') = Len(channel) + 1
          /\ sent_deals'[Len(sent_deals')].telegram_message_id = Len(channel')
    /\ channel' # channel => InSendDeal /\ ~SameSendDeal
    /\ SameSendDeal =>
          /\ send.pc = "photo" /\ send'.pc = "text"
          /\ channel' = channel
          /\ sent_deals' = sent_deals

\* no deal of a run has two messages, no message has two rows, and every
\* row names a message of its own deal that is in the channel
C30_OnePerCall ==
    /\ \A m1, m2 \in 1..Len(channel) :
          (channel[m1].run = channel[m2].run /\ channel[m1].deal = channel[m2].deal)
              => m1 = m2
    /\ \A r1, r2 \in 1..Len(sent_deals) :
          sent_deals[r1].telegram_message_id = sent_deals[r2].telegram_message_id
              => r1 = r2
    /\ \A r \in 1..Len(sent_deals) :
          /\ sent_deals[r].telegram_message_id \in 1..Len(channel)
          /\ channel[sent_deals[r].telegram_message_id].deal.product.aliexpress_link
                = sent_deals[r].product_link

\* C30: each send_deal call posts at most one message and writes at most one
\* history row, and writes the row only after its message was posted: the
\* photo path and the text fallback never both post and never both record
\* for the same call
C30_AtMostOnePostAndRecord ==
    [](C30_OnePerCall) /\ [][C30_PostEndsTheCall]_vars

\* a deal with an image went out as text, after send_photo had failed, and
\* was recorded once
C30_Witness ==
    \E m \in 1..Len(channel) :
        /\ channel[m].run > 0
        /\ channel[m].kind = "text"
        /\ channel[m].deal.image_url # None
        /\ channel[m].deal.image_url[1] # <<>>
        /\ \E r \in 1..Len(sent_deals) : sent_deals[r].telegram_message_id = m

=============================================================================
